---- MODULE Spec2Model ----
(***************************************************************************)
(* mHost privileged helper: the request validator (SecurityManagerImpl),   *)
(* its sliding-window rate limiter, the request dispatcher (HostsHelper)   *)
(* the backup manager (BackupManagerImpl), the profile manager             *)
(* (profile.ManagerImpl), the hosts file manager (host.ManagerImpl), the   *)
(* configuration watcher (config.ManagerImpl) and the XPC server           *)
(* (XPCServerImpl), as state machines.                                     *)
(*                                                                         *)
(* The specifications share the variables:                                 *)
(*   SpecSecurity  calls on the security manager,                          *)
(*   SpecBackup    calls on the backup manager and changes made to its     *)
(*                 files by other processes,                               *)
(*   SpecRestart   the backup manager over several process lifetimes,      *)
(*   SpecProfile   calls on the profile manager,                           *)
(*   SpecHosts     calls on the hosts file manager,                        *)
(*   SpecWatcher   WatchConfig and StopWatching and the goroutines they    *)
(*                 start, SpecWatcherLive the same under fair scheduling,  *)
(*   SpecServer    Start and Stop of the XPC server and of HostsHelper,    *)
(*   SpecThreads   ValidateRequest calls of several threads,               *)
(*   SpecRestore   a RestoreBackup call beside other backup manager calls, *)
(*   Spec          requests served by HostsHelper.handleXPCRequest.        *)
(*                                                                         *)
(* Strings of the program are TLA+ strings; Go's strings and filepath      *)
(* packages are modelled by operators over them.  Instants are integers:   *)
(* the validator clock `now` counts ticks of 1/TicksPerMinute minute, the  *)
(* backup manager's clock `clock` counts ticks of 1/TicksPerSecond second. *)
(* `last` records the last call, what it returned and what it wrote;       *)
(* `admitted`, `denied` and `origin` are history variables.                *)
(***************************************************************************)
EXTENDS Integers, Sequences, FiniteSets, TLC

VARIABLES
    now,          \* wall clock read by the validator (time.Now())
    blacklist,    \* SecurityManagerImpl.blacklist: client -> expiry instant
    whitelist,    \* SecurityManagerImpl.whitelist: set of clients mapped to true
    rateLimit,    \* SecurityManagerImpl.rateLimit: client -> RateLimiter.requests
    admitted,     \* history: client -> admission instants still inside the window
    spent,        \* history: client -> instants still inside the window at which
                  \* the limiter admitted a request that a later check rejected
    denied,       \* history: client -> the last rate-limit denial still running
    last,         \* the last call made and what it returned and wrote
    clock,        \* wall clock read by the backup manager
    files,        \* the file system: path -> content
    backupIndex,  \* BackupManagerImpl.backupIndex: id -> BackupInfo
    origin,       \* history: id -> the source path and bytes CreateBackup was given,
                  \* and whether the backup file was changed from outside since
    modTime,      \* the file system: path of a file of the backup directory ->
                  \* its modification time
    profiles,     \* ManagerImpl.profiles: id -> Profile
    activeID,     \* ManagerImpl.activeID
    profileFile,  \* what profiles.json holds
    held,         \* the copy of a profile the caller got from GetProfile
    nextID,       \* the number of the next identifier generateID hands out
    hostsFile,    \* the bytes of the file at host.ManagerImpl.hostsPath
    hostsTime,    \* wall clock read by the hosts file manager, in seconds
    watching,     \* config.ManagerImpl.watching
    stopChan,     \* config.ManagerImpl.stopChan: the number of the channel it holds
    closedChans,  \* the channels that are closed
    watchers,     \* the watchConfigFile goroutines, in the order they were started
    xpcRunning,   \* XPCServerImpl.running
    xpcCancelled, \* XPCServerImpl.ctx is cancelled
    loops,        \* the messageLoop goroutines, in the order they were started
    helperRunning,\* HostsHelper.running
    mu,           \* SecurityManagerImpl.mu: the thread that holds it, or NoThread
    threads,      \* thread -> where it is in ValidateRequest
    restoring     \* where the RestoreBackup call in progress is

vars == <<now, blacklist, whitelist, rateLimit, admitted, spent, denied, last,
          clock, files, backupIndex, origin, modTime,
          profiles, activeID, profileFile, held, nextID,
          hostsFile, hostsTime, watching, stopChan, closedChans, watchers,
          xpcRunning, xpcCancelled, loops, helperRunning, mu, threads, restoring>>

secVars == <<now, blacklist, whitelist, rateLimit, admitted, spent, denied>>
bakVars == <<clock, files, backupIndex, origin, modTime>>
proVars == <<profiles, activeID, profileFile, held, nextID>>
hostVars == <<hostsFile, hostsTime>>
watchVars == <<watching, stopChan, closedChans, watchers>>
xpcVars == <<xpcRunning, xpcCancelled, loops, helperRunning>>
thrVars == <<mu, threads>>
\* the variables of the components that follow the profile manager
extVars == <<hostVars, watchVars, xpcVars, thrVars, restoring>>

-----------------------------------------------------------------------------
(* Bounds of the model *)

\* ticks of `now` per minute
TicksPerMinute == 2
\* last instant of `now` the model explores
MaxTime == 3
\* SecurityConfig.MaxRequestsPerMinute (default 60), scaled down
MaxRequestsPerMinute == 2
\* SecurityConfig.BlacklistDuration (default 15 minutes), scaled down, in ticks
BlacklistDuration == 3
\* SecurityConfig.MaxHostEntries (default 1000), scaled down
MaxHostEntries == 2
\* ticks of `clock` per second
TicksPerSecond == 2
\* last instant of `clock` the model explores
MaxClock == 3
\* BackupManagerImpl.maxBackups (10 in NewHostsHelper), scaled down
MaxBackups == 2

-----------------------------------------------------------------------------
(* Go's strings package *)

HasPrefix(s, p) == Len(s) >= Len(p) /\ SubSeq(s, 1, Len(p)) = p

HasSuffix(s, p) == Len(s) >= Len(p) /\ SubSeq(s, Len(s) - Len(p) + 1, Len(s)) = p

Contains(s, sub) ==
    \E i \in 1..(Len(s) - Len(sub) + 1) : SubSeq(s, i, i + Len(sub) - 1) = sub

TrimSuffix(s, p) == IF HasSuffix(s, p) THEN SubSeq(s, 1, Len(s) - Len(p)) ELSE s

\* the zero time.Time: an instant before every instant the clock shows
ZeroTime == -1000

\* time.Minute, the limiter's window (checkRateLimit)
Window == TicksPerMinute
\* validateBasicRequest: now.Add(-5*time.Minute)
StaleAge == 5 * TicksPerMinute
\* validateBasicRequest: now.Add(1*time.Minute)
FutureSkew == 1 * TicksPerMinute

\* the longest comment validateHostEntry lets through
MaxCommentLen == 200

AllowedOperations ==
    {"write_hosts", "backup_hosts", "restore_hosts", "validate_hosts", "get_status"}

-----------------------------------------------------------------------------
(* Go's strings and net packages, as far as the validator uses them *)

RECURSIVE Split(_, _)
\* strings.Split for a one-character separator
Split(s, sep) ==
    IF \E i \in 1..Len(s) : SubSeq(s, i, i) = sep
    THEN LET i == CHOOSE k \in 1..Len(s) :
                    /\ SubSeq(s, k, k) = sep
                    /\ \A j \in 1..(k - 1) : SubSeq(s, j, j) # sep
         IN  <<SubSeq(s, 1, i - 1)>> \o Split(SubSeq(s, i + 1, Len(s)), sep)
    ELSE <<s>>

UpperChars == "ABCDEFGHIJKLMNOPQRSTUVWXYZ"
LowerChars == "abcdefghijklmnopqrstuvwxyz"
DigitChars == "0123456789"
HexChars == "0123456789abcdef"

\* the characters of a string, as a set
CharSet(alphabet) == {SubSeq(alphabet, i, i) : i \in 1..Len(alphabet)}

\* the position of each character of the alphabet, counted from 0
ValueOf(alphabet) ==
    [c \in CharSet(alphabet) |->
        (CHOOSE i \in 1..Len(alphabet) : SubSeq(alphabet, i, i) = c) - 1]

UpperValue == ValueOf(UpperChars)
DigitValue == ValueOf(DigitChars)
HexValue == ValueOf(HexChars)
AlnumChars == CharSet(UpperChars \o LowerChars \o DigitChars)

LowerChar(c) ==
    IF c \in DOMAIN UpperValue
    THEN SubSeq(LowerChars, UpperValue[c] + 1, UpperValue[c] + 1)
    ELSE c

RECURSIVE ToLower(_)
ToLower(s) == IF s = "" THEN "" ELSE LowerChar(SubSeq(s, 1, 1)) \o ToLower(Tail(s))

IsAlnum(c) == c \in AlnumChars

RECURSIVE ParseNum(_, _, _)
\* the value of the digit string s, continuing from acc; value gives each digit's
ParseNum(s, value, acc) ==
    IF s = "" THEN acc
    ELSE ParseNum(Tail(s), value,
                  acc * Cardinality(DOMAIN value) + value[LowerChar(SubSeq(s, 1, 1))])

AllIn(s, value) ==
    \A i \in 1..Len(s) : LowerChar(SubSeq(s, i, i)) \in DOMAIN value

NilIP == [v |-> 0, b |-> <<>>]

\* net.parseIPv4: four decimal fields 0..255, no empty field, no leading zero
ParseIPv4(s) ==
    LET parts == Split(s, ".")
        good(f) == /\ Len(f) \in 1..3
                   /\ AllIn(f, DigitValue)
                   /\ (Len(f) > 1 => SubSeq(f, 1, 1) # "0")
                   /\ ParseNum(f, DigitValue, 0) <= 255
    IN  IF Len(parts) = 4 /\ \A i \in 1..4 : good(parts[i])
        THEN [v |-> 4, b |-> [i \in 1..4 |-> ParseNum(parts[i], DigitValue, 0)]]
        ELSE NilIP

\* net.parseIPv6 without zone and without a dotted-decimal tail: groups of one
\* to four hex digits, at most one "::" standing for at least one zero group
ParseIPv6(s) ==
    LET halves ==
            IF Contains(s, "::")
            THEN LET i == CHOOSE k \in 1..(Len(s) - 1) :
                            /\ SubSeq(s, k, k + 1) = "::"
                            /\ \A j \in 1..(k - 1) : SubSeq(s, j, j + 1) # "::"
                 IN  <<SubSeq(s, 1, i - 1), SubSeq(s, i + 2, Len(s))>>
            ELSE <<s>>
        groups(h) == IF h = "" THEN <<>> ELSE Split(h, ":")
        good(f) == Len(f) \in 1..4 /\ AllIn(f, HexValue)
        val(gs) == [i \in 1..Len(gs) |-> ParseNum(gs[i], HexValue, 0)]
    IN  IF Len(halves) = 1
        THEN LET gs == groups(s)
             IN  IF Len(gs) = 8 /\ \A i \in 1..8 : good(gs[i])
                 THEN [v |-> 6, b |-> val(gs)]
                 ELSE NilIP
        ELSE LET l == groups(halves[1])
                 r == groups(halves[2])
             IN  IF /\ ~Contains(halves[2], "::")
                    /\ Len(l) + Len(r) <= 7
                    /\ \A i \in 1..Len(l) : good(l[i])
                    /\ \A i \in 1..Len(r) : good(r[i])
                 THEN [v |-> 6,
                       b |-> val(l) \o [i \in 1..(8 - Len(l) - Len(r)) |-> 0] \o val(r)]
                 ELSE NilIP

\* net.ParseIP
ParseIP(s) ==
    IF Contains(s, ".") /\ ~Contains(s, ":") THEN ParseIPv4(s)
    ELSE IF Contains(s, ":") /\ ~Contains(s, ".") THEN ParseIPv6(s)
    ELSE NilIP

\* net.IP.To4: the four bytes of an IPv4 or IPv4-mapped address, <<>> otherwise
To4(ip) ==
    IF ip.v = 4 THEN ip.b
    ELSE IF ip.v = 6 /\ (\A i \in 1..5 : ip.b[i] = 0) /\ ip.b[6] = 65535
    THEN <<ip.b[7] \div 256, ip.b[7] % 256, ip.b[8] \div 256, ip.b[8] % 256>>
    ELSE <<>>

IsMulticast(ip) ==
    IF To4(ip) # <<>> THEN To4(ip)[1] \div 16 = 14
    ELSE ip.v = 6 /\ ip.b[1] \div 256 = 255

IsUnspecified(ip) ==
    IF To4(ip) # <<>> THEN \A i \in 1..4 : To4(ip)[i] = 0
    ELSE ip.v = 6 /\ \A i \in 1..8 : ip.b[i] = 0

\* a check that only knows the multicast addresses
isDangerousIPMulticast(ip) == IsMulticast(ip)

isDangerousIP(ip) == IsMulticast(ip) \/ IsUnspecified(ip)

validateIPAddress(ip) ==
    IF ParseIP(ip) = NilIP THEN "invalid IP format"
    ELSE IF isDangerousIP(ParseIP(ip)) THEN "dangerous IP address not allowed"
    ELSE ""

dangerousPatterns == <<"localhost", "127.0.0.1", "0.0.0.0", "*.local">>

isDangerousHostname(hostname) ==
    \E i \in 1..Len(dangerousPatterns) :
        Contains(ToLower(hostname), ToLower(dangerousPatterns[i]))

\* hostnameRegex: dot-separated labels of 1..63 characters, letters, digits and
\* hyphens, neither starting nor ending with a hyphen
hostnameRegex(hostname) ==
    LET labels == Split(hostname, ".")
        label(l) == /\ Len(l) \in 1..63
                    /\ IsAlnum(SubSeq(l, 1, 1))
                    /\ IsAlnum(SubSeq(l, Len(l), Len(l)))
                    /\ \A i \in 1..Len(l) :
                          IsAlnum(SubSeq(l, i, i)) \/ SubSeq(l, i, i) = "-"
    IN  \A i \in 1..Len(labels) : label(labels[i])

validateHostname(hostname) ==
    IF Len(hostname) > 253 THEN "hostname too long (max 253 characters)"
    ELSE IF ~hostnameRegex(hostname) THEN "invalid hostname format"
    ELSE IF isDangerousHostname(hostname) THEN "dangerous hostname not allowed"
    ELSE ""

\* v.(string): the value of key k when it is present and a string
IsStr(m, k) == k \in DOMAIN m /\ "str" \in DOMAIN m[k]

validateHostEntry(entry) ==
    IF ~IsStr(entry, "ip") \/ (IsStr(entry, "ip") /\ entry["ip"].str = "")
    THEN "missing or invalid ip"
    ELSE IF ~IsStr(entry, "hostname") \/ (IsStr(entry, "hostname") /\ entry["hostname"].str = "")
    THEN "missing or invalid hostname"
    ELSE IF validateIPAddress(entry["ip"].str) # ""
    THEN "invalid IP address: " \o validateIPAddress(entry["ip"].str)
    ELSE IF validateHostname(entry["hostname"].str) # ""
    THEN "invalid hostname: " \o validateHostname(entry["hostname"].str)
    ELSE IF IsStr(entry, "comment") /\ Len(entry["comment"].str) > MaxCommentLen
    THEN "comment too long (max 200 characters)"
    ELSE ""

\* the error of element i of the entries array
entryError(e, i) ==
    IF "map" \notin DOMAIN e THEN "entry " \o ToString(i - 1) \o " is not a valid object"
    ELSE IF validateHostEntry(e.map) # ""
    THEN "entry " \o ToString(i - 1) \o " validation failed: " \o validateHostEntry(e.map)
    ELSE ""

\* a validation that looks at the first element of the array only
validateWriteHostsParamsFirst(params) ==
    IF "entries" \notin DOMAIN params THEN "missing entries parameter"
    ELSE IF "arr" \notin DOMAIN params["entries"] THEN "entries must be an array"
    ELSE LET es == params["entries"].arr
         IN  IF Len(es) > MaxHostEntries
             THEN "too many host entries: " \o ToString(Len(es))
                  \o " (max: " \o ToString(MaxHostEntries) \o ")"
             ELSE IF Len(es) >= 1 THEN entryError(es[1], 1)
             ELSE ""

validateWriteHostsParams(params) ==
    IF "entries" \notin DOMAIN params THEN "missing entries parameter"
    ELSE IF "arr" \notin DOMAIN params["entries"] THEN "entries must be an array"
    ELSE LET es == params["entries"].arr
         IN  IF Len(es) > MaxHostEntries
             THEN "too many host entries: " \o ToString(Len(es))
                  \o " (max: " \o ToString(MaxHostEntries) \o ")"
             ELSE IF \E i \in 1..Len(es) : entryError(es[i], i) # ""
             THEN LET i == CHOOSE k \in 1..Len(es) :
                             /\ entryError(es[k], k) # ""
                             /\ \A j \in 1..(k - 1) : entryError(es[j], j) = ""
                  IN  entryError(es[i], i)
             ELSE ""

\* os.Stat(path) finds a file
Exists(path) == path \in DOMAIN files

\* a path check that does not look for the file
validateFilePathUnseen(path) ==
    IF Contains(path, "..") THEN "path traversal not allowed"
    ELSE IF ~HasPrefix(path, "/") THEN "only absolute paths allowed"
    ELSE ""

validateFilePath(path) ==
    IF Contains(path, "..") THEN "path traversal not allowed"
    ELSE IF ~HasPrefix(path, "/") THEN "only absolute paths allowed"
    ELSE IF ~Exists(path) THEN "file does not exist"
    ELSE ""

validateRestoreHostsParams(params) ==
    IF "backup_path" \notin DOMAIN params THEN "missing backup_path parameter"
    ELSE IF "str" \notin DOMAIN params["backup_path"] THEN "backup_path must be a string"
    ELSE IF validateFilePath(params["backup_path"].str) # ""
    THEN "invalid backup path: " \o validateFilePath(params["backup_path"].str)
    ELSE ""

validateParameters(req) ==
    IF req.operation = "write_hosts" THEN validateWriteHostsParams(req.parameters)
    ELSE IF req.operation = "restore_hosts" THEN validateRestoreHostsParams(req.parameters)
    ELSE IF req.operation \in {"backup_hosts", "validate_hosts", "get_status"} THEN ""
    ELSE "unknown operation: " \o req.operation

\* a check that lets every operation through
isOperationAllowedAny(operation) == TRUE

isOperationAllowed(operation) == operation \in AllowedOperations


-----------------------------------------------------------------------------
(* SecurityManagerImpl *)

\* a freshness check that turns away the two limit instants as well
validateBasicRequestStrict(req) ==
    IF req.client_id = "" THEN "client ID is empty"
    ELSE IF req.operation = "" THEN "operation is empty"
    ELSE IF req.timestamp = ZeroTime THEN "timestamp is zero"
    ELSE IF req.timestamp <= now - StaleAge THEN "request timestamp too old"
    ELSE IF req.timestamp >= now + FutureSkew THEN "request timestamp too new"
    ELSE ""

validateBasicRequest(req) ==
    IF req.client_id = "" THEN "client ID is empty"
    ELSE IF req.operation = "" THEN "operation is empty"
    ELSE IF req.timestamp = ZeroTime THEN "timestamp is zero"
    ELSE IF req.timestamp < now - StaleAge THEN "request timestamp too old"
    ELSE IF req.timestamp > now + FutureSkew THEN "request timestamp too new"
    ELSE ""

\* a map with key k set to v
Put(m, k, v) == [x \in DOMAIN m \cup {k} |-> IF x = k THEN v ELSE m[x]]

\* a map without key k
Delete(m, k) == [x \in DOMAIN m \ {k} |-> m[x]]

\* a check that still holds the ban at the instant of its expiry
isBlacklistedAtExpiry(clientID) ==
    IF clientID \in DOMAIN blacklist
    THEN IF now <= blacklist[clientID]
         THEN [result |-> TRUE, blacklist |-> blacklist]
         ELSE [result |-> FALSE, blacklist |-> Delete(blacklist, clientID)]
    ELSE [result |-> FALSE, blacklist |-> blacklist]

\* a check that restarts the ban of a client it finds blacklisted
isBlacklistedRestarting(clientID) ==
    IF clientID \in DOMAIN blacklist
    THEN IF now < blacklist[clientID]
         THEN [result |-> TRUE,
               blacklist |-> [blacklist EXCEPT ![clientID] = now + BlacklistDuration]]
         ELSE [result |-> FALSE, blacklist |-> Delete(blacklist, clientID)]
    ELSE [result |-> FALSE, blacklist |-> blacklist]

\* isBlacklisted: the answer, and the blacklist after the lazy eviction
isBlacklisted(clientID) ==
    IF clientID \in DOMAIN blacklist
    THEN IF now < blacklist[clientID]
         THEN [result |-> TRUE, blacklist |-> blacklist]
         ELSE [result |-> FALSE, blacklist |-> Delete(blacklist, clientID)]
    ELSE [result |-> FALSE, blacklist |-> blacklist]

\* a ban that lasts one limiter window instead of BlacklistDuration
addToBlacklistWindow(bl, clientID) == Put(bl, clientID, now + Window)

addToBlacklist(bl, clientID) == Put(bl, clientID, now + BlacklistDuration)

\* a limiter that never forgets an instant
AllowUnpruned(requests) ==
    IF Len(requests) >= MaxRequestsPerMinute
    THEN [allowed |-> FALSE, requests |-> requests]
    ELSE [allowed |-> TRUE, requests |-> Append(requests, now)]

\* a limiter that admits one request more than maxReqs
AllowOneMore(requests) ==
    LET cutoff == now - Window
        validRequests == SelectSeq(requests, LAMBDA reqTime : reqTime > cutoff)
    IN  IF Len(validRequests) > MaxRequestsPerMinute
        THEN [allowed |-> FALSE, requests |-> validRequests]
        ELSE [allowed |-> TRUE, requests |-> Append(validRequests, now)]

\* RateLimiter.Allow on the recorded instants: the answer and the instants kept
Allow(requests) ==
    LET cutoff == now - Window
        validRequests == SelectSeq(requests, LAMBDA reqTime : reqTime > cutoff)
    IN  IF Len(validRequests) >= MaxRequestsPerMinute
        THEN [allowed |-> FALSE, requests |-> validRequests]
        ELSE [allowed |-> TRUE, requests |-> Append(validRequests, now)]

\* checkRateLimit: the answer and the limiters afterwards
checkRateLimit(clientID) ==
    IF clientID \in whitelist
    THEN [allowed |-> TRUE, rateLimit |-> rateLimit]
    ELSE LET limiter == IF clientID \in DOMAIN rateLimit THEN rateLimit[clientID] ELSE <<>>
             a == Allow(limiter)
         IN  [allowed |-> a.allowed, rateLimit |-> Put(rateLimit, clientID, a.requests)]

\* a report of the violation that leaves the audit log out
logSecurityViolationUnaudited(clientID, violation, operation, severity, description) ==
    [violations |-> << [client |-> clientID, violation |-> violation,
                        operation |-> operation, severity |-> severity,
                        description |-> description] >>,
     audit |-> <<>>]

\* logSecurityViolation: the "Security violation detected" entry written to the
\* log, and the record handed to AuditLogger.LogFailedOperation
logSecurityViolation(clientID, violation, operation, severity, description) ==
    [violations |-> << [client |-> clientID, violation |-> violation,
                        operation |-> operation, severity |-> severity,
                        description |-> description] >>,
     audit |-> << [type |-> "failed", operation |-> operation, client |-> clientID,
                   error |-> violation \o ": " \o description] >>]

\* a validation that gives the slot back when a check after the limiter rejects
\* the request
ValidateRequestRefunding(req) ==
    LET basic == validateBasicRequest(req)
        black == isBlacklisted(req.client_id)
        rate  == checkRateLimit(req.client_id)
        param == validateParameters(req)
        out(code, msg, bl, rl, violation, severity, description, checks) ==
            LET logged == IF violation = "" THEN [violations |-> <<>>, audit |-> <<>>]
                          ELSE logSecurityViolation(req.client_id, violation,
                                                    req.operation, severity, description)
            IN  [code |-> code, msg |-> msg, blacklist |-> bl, rateLimit |-> rl,
                 violations |-> logged.violations, audit |-> logged.audit,
                 checks |-> checks]
    IN  IF basic # ""
        THEN out("", "basic validation failed: " \o basic, blacklist, rateLimit,
                 "basic_validation", "high", basic, <<"basic">>)
        ELSE IF black.result
        THEN out("CLIENT_BLACKLISTED", "client is blacklisted", black.blacklist, rateLimit,
                 "blacklisted", "high", "Client is blacklisted",
                 <<"basic", "blacklist">>)
        ELSE IF ~rate.allowed
        THEN out("RATE_LIMIT_EXCEEDED", "rate limit exceeded",
                 addToBlacklist(black.blacklist, req.client_id), rate.rateLimit,
                 "rate_limit", "medium", "Rate limit exceeded",
                 <<"basic", "blacklist", "rate_limit">>)
        ELSE IF ~isOperationAllowed(req.operation)
        THEN out("OPERATION_NOT_ALLOWED", "operation not allowed: " \o req.operation,
                 black.blacklist, rateLimit,
                 "unauthorized_operation", "high", "Operation not allowed",
                 <<"basic", "blacklist", "rate_limit", "operation">>)
        ELSE IF param # ""
        THEN out("", "parameter validation failed: " \o param,
                 black.blacklist, rateLimit, "parameter_validation", "medium", param,
                 <<"basic", "blacklist", "rate_limit", "operation", "parameters">>)
        ELSE out("", "", black.blacklist, rate.rateLimit, "", "", "",
                 <<"basic", "blacklist", "rate_limit", "operation", "parameters">>)

\* ValidateRequest: the error returned (code "" and msg "" for nil), the maps as
\* the call leaves them, the violation entries and the audit records it wrote and
\* the checks it evaluated
ValidateRequest(req) ==
    LET basic == validateBasicRequest(req)
        black == isBlacklisted(req.client_id)
        rate  == checkRateLimit(req.client_id)
        param == validateParameters(req)
        out(code, msg, bl, rl, violation, severity, description, checks) ==
            LET logged == IF violation = "" THEN [violations |-> <<>>, audit |-> <<>>]
                          ELSE logSecurityViolation(req.client_id, violation,
                                                    req.operation, severity, description)
            IN  [code |-> code, msg |-> msg, blacklist |-> bl, rateLimit |-> rl,
                 violations |-> logged.violations, audit |-> logged.audit,
                 checks |-> checks]
    IN  IF basic # ""
        THEN out("", "basic validation failed: " \o basic, blacklist, rateLimit,
                 "basic_validation", "high", basic, <<"basic">>)
        ELSE IF black.result
        THEN out("CLIENT_BLACKLISTED", "client is blacklisted", black.blacklist, rateLimit,
                 "blacklisted", "high", "Client is blacklisted",
                 <<"basic", "blacklist">>)
        ELSE IF ~rate.allowed
        THEN out("RATE_LIMIT_EXCEEDED", "rate limit exceeded",
                 addToBlacklist(black.blacklist, req.client_id), rate.rateLimit,
                 "rate_limit", "medium", "Rate limit exceeded",
                 <<"basic", "blacklist", "rate_limit">>)
        ELSE IF ~isOperationAllowed(req.operation)
        THEN out("OPERATION_NOT_ALLOWED", "operation not allowed: " \o req.operation,
                 black.blacklist, rate.rateLimit,
                 "unauthorized_operation", "high", "Operation not allowed",
                 <<"basic", "blacklist", "rate_limit", "operation">>)
        ELSE IF param # ""
        THEN out("", "parameter validation failed: " \o param,
                 black.blacklist, rate.rateLimit, "parameter_validation", "medium", param,
                 <<"basic", "blacklist", "rate_limit", "operation", "parameters">>)
        ELSE out("", "", black.blacklist, rate.rateLimit, "", "", "",
                 <<"basic", "blacklist", "rate_limit", "operation", "parameters">>)


-----------------------------------------------------------------------------
(* Requests the clients send *)

EmptyMap == [x \in {} |-> 0]

ClientIDs == {"c1", "c2"}

HostsPath == "/etc/hosts"
BackupDir == "/tmp/mhost-backups"

Entry(ip, hostname) == [map |-> [ip |-> [str |-> ip], hostname |-> [str |-> hostname]]]

Request(op, c, params, ts) ==
    [operation |-> op, client_id |-> c, parameters |-> params, timestamp |-> ts]

\* a host entry with a comment
Commented(ip, hostname, comment) ==
    [map |-> [ip |-> [str |-> ip], hostname |-> [str |-> hostname],
              comment |-> [str |-> comment]]]

RECURSIVE Repeat(_, _)
\* strings.Repeat
Repeat(str, count) ==
    IF count = 0 THEN ""
    ELSE LET half == Repeat(str, count \div 2)
         IN  half \o half \o (IF count % 2 = 1 THEN str ELSE "")

\* IP strings of host entries: two good ones, two that do not parse, two
\* multicast and two unspecified addresses
EntryIPs ==
    { "192.168.1.10", "2001:db8::1", "256.1.1.1", "invalid-ip", "224.0.0.1", "ff02::1",
      "0.0.0.0", "::" }

\* hostnames of host entries: a good one, one of a bad format, and names that
\* hold localhost, 127.0.0.1 or 0.0.0.0 or end in .local
EntryHostnames ==
    { "dev.example.com", "bad_host", "localhost", "my-LocalHost.example.com",
      "127.0.0.1", "a.0.0.0.0.b", "printer.local" }

\* elements of the entries array: every IP with a good hostname, every hostname
\* with a good IP, comments at and over the limit, and elements that are not a
\* mapping or lack a field
Entries ==
    { Entry(ip, "dev.example.com") : ip \in EntryIPs }
    \cup { Entry("192.168.1.10", hostname) : hostname \in EntryHostnames }
    \cup { Commented("192.168.1.10", "dev.example.com", Repeat("c", MaxCommentLen)),
           Commented("192.168.1.10", "dev.example.com", Repeat("c", MaxCommentLen + 1)),
           [str |-> "192.168.1.10 dev.example.com"],
           [map |-> [hostname |-> [str |-> "dev.example.com"]]],
           [map |-> [ip |-> [str |-> ""], hostname |-> [str |-> "dev.example.com"]]],
           [map |-> [ip |-> [str |-> "192.168.1.10"]]],
           [map |-> [ip |-> [str |-> "192.168.1.10"], hostname |-> [str |-> ""]]] }

\* parameter maps of write_hosts requests: every element alone, a good element
\* followed by a bad one, a bad one followed by another bad one, one entry more
\* than MaxHostEntries, entries that are no array, and no entries
WriteParams ==
    { [entries |-> [arr |-> <<e>>]] : e \in Entries }
    \cup { [entries |-> [arr |-> <<Entry("192.168.1.10", "dev.example.com"),
                                   Entry("256.1.1.1", "ok.com")>>]],
           [entries |-> [arr |-> <<Entry("192.168.1.10", "bad_host"),
                                   Entry("256.1.1.1", "ok.com")>>]],
           [entries |-> [arr |-> [i \in 1..(MaxHostEntries + 1) |->
                                     Entry("10.0.0.1", "a.example.com")]]],
           [entries |-> [str |-> "none"]],
           EmptyMap }

\* a file next to the hosts file whose name holds two dots in a row
DottedPath == "/etc/hosts..bak"

\* parameter maps of restore_hosts requests
RestoreParams ==
    { [backup_path |-> [str |-> BackupDir \o "/old.backup"]],
      [backup_path |-> [str |-> BackupDir \o "/../../etc/hosts"]],
      [backup_path |-> [str |-> "old.backup"]],
      [backup_path |-> [str |-> "../etc/hosts"]],
      [backup_path |-> [str |-> BackupDir \o "/gone.backup"]],
      [backup_path |-> [str |-> HostsPath]],
      [backup_path |-> [str |-> DottedPath]],
      [backup_path |-> [arr |-> <<>>]],
      [backup_id |-> [str |-> "old"]],
      [backup_id |-> [str |-> "old"], backup_path |-> [str |-> BackupDir \o "/old.backup"]],
      EmptyMap }

\* the instants a request may carry, around the two limits of validateBasicRequest
Timestamps ==
    { ZeroTime, now - StaleAge - 1, now - StaleAge, now, now + FutureSkew,
      now + FutureSkew + 1 }

\* what client c1 sends to the validator: a well-formed status request, the same
\* with every instant around the limits, and one request failing each other check
RichRequests ==
    {Request("get_status", "c1", EmptyMap, ts) : ts \in Timestamps}
    \cup { Request("get_status", "", EmptyMap, now),
           Request("", "c1", EmptyMap, now),
           Request("delete_all", "c1", EmptyMap, now),
           Request("delete_all", "c1", EmptyMap, now - StaleAge - 1),
           Request("write_hosts", "c1",
                   [entries |-> [arr |-> <<Entry("256.1.1.1", "ok.com")>>]], now) }

\* what client c2 sends, during the first window: well-formed status requests
PlainRequests ==
    IF now < Window THEN {Request("get_status", "c2", EmptyMap, now)} ELSE {}

\* the clients an administrator puts on the whitelist
Trusted == {"c1"}

-----------------------------------------------------------------------------
(* The backup manager: BackupManagerImpl over the file system *)

\* an error value: nil is the one with the empty message
Nil == [code |-> "", msg |-> ""]
Err(code, msg) == [code |-> code, msg |-> msg]

\* position of the last "/" of path, 0 if none
LastSlash(path) ==
    LET at == {i \in 1..Len(path) : SubSeq(path, i, i) = "/"}
    IN  IF at = {} THEN 0 ELSE CHOOSE i \in at : \A j \in at : j <= i

\* filepath.Base and filepath.Dir on clean paths
Base(path) ==
    IF path = "" THEN "." ELSE SubSeq(path, LastSlash(path) + 1, Len(path))

Dir(path) ==
    IF LastSlash(path) = 0 THEN "."
    ELSE IF LastSlash(path) = 1 THEN "/"
    ELSE SubSeq(path, 1, LastSlash(path) - 1)

\* filepath.Join of a directory and a file name
Join(dir, name) == dir \o "/" \o name

\* the contents a source file takes
SourceContents == {"127.0.0.1 localhost", "127.0.0.1 dev", "10.0.0.1 old"}

\* md5 over the byte strings of the model, in hexadecimal
md5Hex(bytes) ==
    CASE bytes = "" -> "d41d8cd98f00b204e9800998ecf8427e"
      [] bytes = "127.0.0.1 localhost" -> "4acc4b7d8613b7474f1ce85cf64cd04e"
      [] bytes = "127.0.0.1 dev" -> "97701ee57a2a78daffe0404a9fb861ac"
      [] bytes = "10.0.0.1 old" -> "49a93ca45aef7f9e58a21a0f580cb546"
      [] bytes = "127.0.0.1 localhos" -> "5fe25751cf15eba55c06014a0bdef9ea"
      [] bytes = "127.0.0.1 de" -> "4f03e10d379a4cec739bbf3fcde525df"
      [] bytes = "10.0.0.1 ol" -> "13c9f00b081d4120ba60d04fe0de8c7e"
      [] bytes = "127.0.0.1 localhos#" -> "81435f709274d03e0703f5b9aaa2630c"
      [] bytes = "127.0.0.1 de#" -> "72528c648c7cb76713e6f2d62ec8fd35"
      [] bytes = "10.0.0.1 ol#" -> "47bcc1364091c5557a6faa4e55df89ac"
      [] bytes = "/etc/hosts" -> "ad942c725cd0cae65ca4c63717ec464c"
      [] bytes = "/etc/none" -> "e0cb99b61f4330e8f4a23651d320c159"

\* shortHash: the first 8 hexadecimal digits of the md5 of the input
shortHash(input) == SubSeq(md5Hex(input), 1, 8)

\* time.Now().Format("20060102-150405"), the process starting at 2025-01-01 00:00:00
Format(second) == "20250101-00000" \o ToString(second)

\* an identifier that carries the instant to the tick
generateBackupIDOfInstant(sourcePath, name) ==
    LET timestamp == Format(clock)
        baseName == IF name # "" THEN name ELSE Base(sourcePath)
    IN  baseName \o "-" \o timestamp \o "-" \o shortHash(sourcePath)

generateBackupID(sourcePath, name) ==
    LET timestamp == Format(clock \div TicksPerSecond)
        baseName == IF name # "" THEN name ELSE Base(sourcePath)
    IN  baseName \o "-" \o timestamp \o "-" \o shortHash(sourcePath)

\* a digest that only depends on the number of bytes
calculateChecksumOfSize(fs, filePath) ==
    IF filePath \in DOMAIN fs
    THEN [err |-> "", sum |-> "len" \o ToString(Len(fs[filePath]))]
    ELSE [err |-> "open " \o filePath \o ": no such file or directory", sum |-> ""]

\* calculateChecksum on file system fs
calculateChecksum(fs, filePath) ==
    IF filePath \in DOMAIN fs
    THEN [err |-> "", sum |-> md5Hex(fs[filePath])]
    ELSE [err |-> "open " \o filePath \o ": no such file or directory", sum |-> ""]

\* a copy that loses the last byte
copyFileShort(fs, src, dst) ==
    IF src \notin DOMAIN fs
    THEN [err |-> "open " \o src \o ": no such file or directory", files |-> fs]
    ELSE IF dst = ""
    THEN [err |-> "open : no such file or directory", files |-> fs]
    ELSE [err |-> "",
          files |-> Put(fs, dst, IF src = dst THEN ""
                                 ELSE SubSeq(fs[src], 1, Len(fs[src]) - 1))]

\* copyFile on file system fs: os.Open(src), os.Create(dst) (which empties an
\* existing dst), io.Copy
copyFile(fs, src, dst) ==
    IF src \notin DOMAIN fs
    THEN [err |-> "open " \o src \o ": no such file or directory", files |-> fs]
    ELSE IF dst = ""
    THEN [err |-> "open : no such file or directory", files |-> fs]
    ELSE [err |-> "", files |-> Put(fs, dst, IF src = dst THEN "" ELSE fs[src])]

\* a cleanup that spares the manual backups as long as automatic ones are left
cleanupOldBackupsSparingManual(idx, fs) ==
    LET n == Cardinality(DOMAIN idx)
        Before(a, b) == \/ idx[a].Automatic /\ ~idx[b].Automatic
                        \/ /\ idx[a].Automatic = idx[b].Automatic
                           /\ idx[a].CreatedAt < idx[b].CreatedAt
        gone == IF n <= MaxBackups THEN {}
                ELSE CHOOSE G \in SUBSET DOMAIN idx :
                        /\ Cardinality(G) = n - MaxBackups
                        /\ \A g \in G, k \in DOMAIN idx \ G : Before(g, k)
    IN  [backupIndex |-> [id \in DOMAIN idx \ gone |-> idx[id]],
         files |-> [p \in DOMAIN fs \ {idx[g].Path : g \in gone} |-> fs[p]]]

RECURSIVE cleanupOldBackups(_, _)
\* cleanupOldBackups on index idx and file system fs: the oldest entries by
\* CreatedAt go, file and entry, until maxBackups are left
cleanupOldBackups(idx, fs) ==
    IF Cardinality(DOMAIN idx) <= MaxBackups
    THEN [backupIndex |-> idx, files |-> fs]
    ELSE LET oldest == CHOOSE id \in DOMAIN idx :
                         \A o \in DOMAIN idx : idx[id].CreatedAt <= idx[o].CreatedAt
         IN  cleanupOldBackups(Delete(idx, oldest), Delete(fs, idx[oldest].Path))

\* the nil *BackupInfo
NoInfo == [ID |-> ""]

CreateBackup(sourcePath, name, description, tags, automatic) ==
    LET backupID == generateBackupID(sourcePath, name)
        backupPath == Join(BackupDir, backupID \o ".backup")
        copied == copyFile(files, sourcePath, backupPath)
        checksum == calculateChecksum(copied.files, backupPath)
        backupInfo == [ID |-> backupID, Name |-> name, Path |-> backupPath,
                       OriginalPath |-> sourcePath, CreatedAt |-> clock,
                       Size |-> Len(copied.files[backupPath]),
                       Checksum |-> checksum.sum, Description |-> description,
                       Tags |-> tags, Automatic |-> automatic]
        cleaned == cleanupOldBackups(Put(backupIndex, backupID, backupInfo),
                                     copied.files)
    IN  IF ~Exists(sourcePath)
        THEN [err |-> Err("FILE_NOT_FOUND", "source file does not exist: " \o sourcePath
                          \o ": stat " \o sourcePath \o ": no such file or directory"),
              info |-> NoInfo, created |-> FALSE,
              backupIndex |-> backupIndex, files |-> files]
        ELSE IF backupID \in DOMAIN backupIndex
        THEN [err |-> Nil, info |-> backupIndex[backupID], created |-> FALSE,
              backupIndex |-> backupIndex, files |-> files]
        ELSE IF copied.err # ""
        THEN [err |-> Err("BACKUP_FAILED", "failed to copy file: " \o copied.err),
              info |-> NoInfo, created |-> FALSE,
              backupIndex |-> backupIndex, files |-> copied.files]
        ELSE [err |-> Nil, info |-> backupInfo, created |-> TRUE,
              backupIndex |-> cleaned.backupIndex, files |-> cleaned.files]

\* a restore that does not look for the backup file before it copies
RestoreBackupUnchecked(backupID, targetPath) ==
    IF backupID \notin DOMAIN backupIndex
    THEN [err |-> Err("BACKUP_NOT_FOUND", "backup not found: " \o backupID),
          files |-> files]
    ELSE
    LET backupInfo == backupIndex[backupID]
        target == IF targetPath = "" THEN backupInfo.OriginalPath ELSE targetPath
        copied == copyFile(files, backupInfo.Path, target)
    IN  IF copied.err # ""
        THEN [err |-> Err("", "failed to restore file: " \o copied.err),
              files |-> copied.files]
        ELSE [err |-> Nil, files |-> copied.files]

RestoreBackup(backupID, targetPath) ==
    IF backupID \notin DOMAIN backupIndex
    THEN [err |-> Err("BACKUP_NOT_FOUND", "backup not found: " \o backupID),
          files |-> files]
    ELSE
    LET backupInfo == backupIndex[backupID]
        currentChecksum == calculateChecksum(files, backupInfo.Path)
        target == IF targetPath = "" THEN backupInfo.OriginalPath ELSE targetPath
        copied == copyFile(files, backupInfo.Path, target)
    IN  IF ~Exists(backupInfo.Path)
        THEN [err |-> Err("FILE_NOT_FOUND",
                          "backup file does not exist: " \o backupInfo.Path \o ": stat "
                          \o backupInfo.Path \o ": no such file or directory"),
              files |-> files]
        ELSE IF /\ backupInfo.Checksum # ""
                /\ currentChecksum.err = ""
                /\ currentChecksum.sum # backupInfo.Checksum
        THEN [err |-> Err("BACKUP_CORRUPTED", "backup file corrupted: checksum mismatch"),
              files |-> files]
        ELSE IF copied.err # ""
        THEN [err |-> Err("", "failed to restore file: " \o copied.err),
              files |-> copied.files]
        ELSE [err |-> Nil, files |-> copied.files]

\* a delete that takes the entry out of the index and leaves the file
DeleteBackupLeavingFile(backupID) ==
    IF backupID \notin DOMAIN backupIndex
    THEN [err |-> Err("", "backup not found: " \o backupID),
          backupIndex |-> backupIndex, files |-> files]
    ELSE [err |-> Nil, backupIndex |-> Delete(backupIndex, backupID), files |-> files]

DeleteBackup(backupID) ==
    IF backupID \notin DOMAIN backupIndex
    THEN [err |-> Err("", "backup not found: " \o backupID),
          backupIndex |-> backupIndex, files |-> files]
    ELSE [err |-> Nil, backupIndex |-> Delete(backupIndex, backupID),
          files |-> Delete(files, backupIndex[backupID].Path)]

\* ListBackups on index idx: the orders sort.Slice can leave the entries in,
\* each one from the newest CreatedAt to the oldest
ListBackups(idx) ==
    LET n == Cardinality(DOMAIN idx)
    IN  { [i \in 1..n |-> idx[order[i]]] :
            order \in { o \in [1..n -> DOMAIN idx] :
                          /\ \A i, j \in 1..n : i # j => o[i] # o[j]
                          /\ \A i \in 1..n - 1 :
                                ~(idx[o[i + 1]].CreatedAt > idx[o[i]].CreatedAt) } }

\* GetBackup: the entry and the error returned
GetBackup(backupID) ==
    IF backupID \notin DOMAIN backupIndex
    THEN [info |-> NoInfo, err |-> Err("", "backup not found: " \o backupID)]
    ELSE [info |-> backupIndex[backupID], err |-> Nil]

ValidateBackup(backupID) ==
    IF backupID \notin DOMAIN backupIndex
    THEN Err("", "backup not found: " \o backupID)
    ELSE
    LET backupInfo == backupIndex[backupID]
        currentChecksum == calculateChecksum(files, backupInfo.Path)
    IN  IF ~Exists(backupInfo.Path)
        THEN Err("", "backup file does not exist: " \o backupInfo.Path)
        ELSE IF Len(files[backupInfo.Path]) # backupInfo.Size
        THEN Err("", "backup file size mismatch: expected "
                     \o ToString(backupInfo.Size) \o ", got "
                     \o ToString(Len(files[backupInfo.Path])))
        ELSE IF backupInfo.Checksum # "" /\ currentChecksum.err # ""
        THEN Err("", "failed to calculate checksum: " \o currentChecksum.err)
        ELSE IF backupInfo.Checksum # "" /\ currentChecksum.sum # backupInfo.Checksum
        THEN Err("", "backup file corrupted: checksum mismatch")
        ELSE Nil

\* parseNameFromID: the part of the id before its first "-"
parseNameFromID(backupID) == Split(backupID, "-")[1]

\* modification time of the backup files found at startup
StartupModTime == -1

\* loadBackupIndex on file system fs with modification times mt: one entry per
\* *.backup file of the backup directory
loadBackupIndex(fs, mt) ==
    LET found == {p \in DOMAIN fs : Dir(p) = BackupDir /\ HasSuffix(Base(p), ".backup")}
    IN  [backupID \in {TrimSuffix(Base(p), ".backup") : p \in found} |->
            LET backupPath == Join(BackupDir, backupID \o ".backup")
            IN  [ID |-> backupID, Name |-> parseNameFromID(backupID),
                 Path |-> backupPath, OriginalPath |-> "",
                 CreatedAt |-> mt[backupPath], Size |-> Len(fs[backupPath]),
                 Checksum |-> calculateChecksum(fs, backupPath).sum,
                 Description |-> "", Tags |-> <<>>, Automatic |-> FALSE]]

-----------------------------------------------------------------------------
(* The state after construction *)

NoCall == [kind |-> "none"]

\* the nil *models.Profile
NoProfile == [ID |-> ""]

\* profiles.json before the first save: loadProfiles finds no file
NoProfileFile == [exists |-> FALSE]

\* no thread: the mutex is free
NoThread == "none"

\* the threads that call ValidateRequest
Threads == {"t1", "t2"}

\* a thread, or a call, that is not under way
Idle == [pc |-> "idle"]

\* the hosts file before the first call on the hosts file manager
InitHosts == "127.0.0.1\tlocalhost\n# Test comment\n"

InitFiles ==
    [p \in {HostsPath, DottedPath, BackupDir \o "/old.backup"} |->
        IF p = BackupDir \o "/old.backup" THEN "10.0.0.1 old" ELSE "127.0.0.1 localhost"]

\* the modification times of InitFiles
InitModTime == [p \in {BackupDir \o "/old.backup"} |-> StartupModTime]

\* the modification times once the files are fs and the call has written the
\* files at the paths `written`
Stamp(fs, written) ==
    [p \in {q \in DOMAIN fs : HasPrefix(q, BackupDir \o "/")} |->
        IF p \in written \/ p \notin DOMAIN modTime THEN clock ELSE modTime[p]]

Init ==
    /\ now = 0
    /\ blacklist = EmptyMap
    /\ whitelist = {}
    /\ rateLimit = EmptyMap
    /\ admitted = [c \in ClientIDs |-> <<>>]
    /\ spent = [c \in ClientIDs |-> <<>>]
    /\ denied = EmptyMap
    /\ last = NoCall
    /\ clock = 0
    /\ files = InitFiles
    /\ backupIndex = loadBackupIndex(InitFiles, InitModTime)
    /\ origin = EmptyMap
    /\ modTime = InitModTime
    /\ profiles = EmptyMap
    /\ activeID = ""
    /\ profileFile = NoProfileFile
    /\ held = NoProfile
    /\ nextID = 1
    /\ hostsFile = InitHosts
    /\ hostsTime = 0
    /\ watching = FALSE
    /\ stopChan = 0
    /\ closedChans = {}
    /\ watchers = <<>>
    /\ xpcRunning = FALSE
    /\ xpcCancelled = FALSE
    /\ loops = <<>>
    /\ helperRunning = FALSE
    /\ mu = NoThread
    /\ threads = [t \in Threads |-> Idle]
    /\ restoring = Idle

-----------------------------------------------------------------------------
(* Calls on the security manager *)

\* what the security manager holds when a call starts
Pre == [now |-> now, blacklist |-> blacklist, whitelist |-> whitelist,
        rateLimit |-> rateLimit, denied |-> denied]

\* the limiter was consulted for the request and admitted it
LimiterAdmitted(req, v) ==
    /\ req.client_id \notin whitelist
    /\ Len(v.checks) >= 3
    /\ v.code # "RATE_LIMIT_EXCEEDED"

\* the histories after a validation that returned v
History(req, v) ==
    /\ admitted' = IF LimiterAdmitted(req, v)
                   THEN [admitted EXCEPT ![req.client_id] = Append(@, now)]
                   ELSE admitted
    /\ spent' = IF LimiterAdmitted(req, v) /\ (v.code # "" \/ v.msg # "")
                THEN [spent EXCEPT ![req.client_id] = Append(@, now)]
                ELSE spent
    /\ denied' = IF v.code = "RATE_LIMIT_EXCEEDED"
                 THEN Put(denied, req.client_id,
                          [until |-> now + BlacklistDuration, cleared |-> FALSE])
                 ELSE denied

ValidateRequestCall(req) ==
    \E v \in {ValidateRequest(req)} :
        /\ blacklist' = v.blacklist
        /\ rateLimit' = v.rateLimit
        /\ History(req, v)
        /\ last' = [kind |-> "ValidateRequest", req |-> req, pre |-> Pre,
                    code |-> v.code, msg |-> v.msg, violations |-> v.violations,
                    audit |-> v.audit, checks |-> v.checks]
        /\ UNCHANGED <<now, whitelist, bakVars, proVars, extVars>>

AddToWhitelist(clientID) ==
    /\ whitelist' = whitelist \cup {clientID}
    /\ last' = NoCall
    /\ UNCHANGED <<now, blacklist, rateLimit, admitted, spent, denied, bakVars, proVars, extVars>>

RemoveFromWhitelist(clientID) ==
    /\ whitelist' = whitelist \ {clientID}
    /\ last' = NoCall
    /\ UNCHANGED <<now, blacklist, rateLimit, admitted, spent, denied, bakVars, proVars, extVars>>

ClearBlacklist ==
    /\ blacklist' = EmptyMap
    /\ denied' = [c \in DOMAIN denied |-> [denied[c] EXCEPT !.cleared = TRUE]]
    /\ last' = NoCall
    /\ UNCHANGED <<now, whitelist, rateLimit, admitted, spent, bakVars, proVars, extVars>>

\* time passes
Tick ==
    /\ now < MaxTime
    /\ now' = now + 1
    /\ admitted' = [c \in ClientIDs |->
                      SelectSeq(admitted[c], LAMBDA t : t > now + 1 - Window)]
    /\ spent' = [c \in ClientIDs |->
                   SelectSeq(spent[c], LAMBDA t : t > now + 1 - Window)]
    /\ denied' = [c \in {d \in DOMAIN denied : now + 1 < denied[d].until} |-> denied[c]]
    /\ last' = NoCall
    /\ UNCHANGED <<blacklist, whitelist, rateLimit, bakVars, proVars, extVars>>

NextSecurity ==
    \/ \E req \in RichRequests \cup PlainRequests : ValidateRequestCall(req)
    \/ \E c \in Trusted : AddToWhitelist(c)
    \/ \E c \in Trusted : RemoveFromWhitelist(c)
    \/ ClearBlacklist
    \/ Tick

SpecSecurity == Init /\ [][NextSecurity]_vars

-----------------------------------------------------------------------------
(* ValidateRequest calls of several threads.  A call waits for s.mu, takes it,
   runs the checks up to the look-up of the client's limiter in s.rateLimit,
   then stores a limiter if it found none, asks the limiter, runs the remaining
   checks and gives s.mu back. *)

\* a lock that never makes a thread wait
AcquirableAlways == TRUE

\* s.mu.Lock() returns: no thread holds the mutex
Acquirable == mu = NoThread

\* what the threads send, during the first window: well-formed status requests
\* of both clients
ThreadRequests ==
    IF now < Window
    THEN {Request("get_status", c, EmptyMap, now) : c \in ClientIDs}
    ELSE {}

\* thread t calls ValidateRequest(req) and waits for the mutex
CallValidateRequest(t, req) ==
    /\ threads[t] = Idle
    /\ threads' = [threads EXCEPT ![t] = [pc |-> "lock", req |-> req]]
    /\ last' = NoCall
    /\ UNCHANGED <<secVars, bakVars, proVars, hostVars, watchVars, xpcVars, mu, restoring>>

\* thread t takes the mutex and runs validateBasicRequest, isBlacklisted and
\* checkRateLimit up to `limiter, exists := s.rateLimit[clientID]`
Enter(t) ==
    /\ threads[t].pc = "lock"
    /\ Acquirable
    /\ mu' = t
    /\ \E req \in {threads[t].req} :
       \E basic \in {validateBasicRequest(req)}, black \in {isBlacklisted(req.client_id)} :
           /\ blacklist' = IF basic = "" THEN black.blacklist ELSE blacklist
           /\ threads' = [threads EXCEPT ![t] =
                  [pc |-> "held", req |-> req,
                   stage |-> IF basic # "" THEN "basic"
                             ELSE IF black.result THEN "blacklist"
                             ELSE IF req.client_id \in whitelist THEN "whitelist"
                             ELSE "limiter",
                   exists |-> req.client_id \in DOMAIN rateLimit]]
    /\ last' = NoCall
    /\ UNCHANGED <<now, whitelist, rateLimit, admitted, spent, denied, bakVars, proVars,
                   hostVars, watchVars, xpcVars, restoring>>

\* thread t stores a limiter if it found none, calls limiter.Allow(), runs
\* isOperationAllowed and validateParameters, returns and gives the mutex back
Leave(t) ==
    /\ threads[t].pc = "held"
    /\ mu' = NoThread
    /\ threads' = [threads EXCEPT ![t] = Idle]
    /\ \E req \in {threads[t].req}, stage \in {threads[t].stage} :
       \E a \in {IF stage = "limiter"
                  THEN Allow(IF threads[t].exists THEN rateLimit[req.client_id] ELSE <<>>)
                  ELSE [allowed |-> TRUE, requests |-> <<>>]} :
       \E v \in {[code |-> IF stage = "basic" THEN ""
                            ELSE IF stage = "blacklist" THEN "CLIENT_BLACKLISTED"
                            ELSE IF ~a.allowed THEN "RATE_LIMIT_EXCEEDED"
                            ELSE IF ~isOperationAllowed(req.operation)
                            THEN "OPERATION_NOT_ALLOWED"
                            ELSE "",
                   ok |-> /\ stage \in {"whitelist", "limiter"}
                          /\ a.allowed
                          /\ isOperationAllowed(req.operation)
                          /\ validateParameters(req) = "",
                   checks |-> IF stage = "basic" THEN <<"basic">>
                              ELSE IF stage = "blacklist" THEN <<"basic", "blacklist">>
                              ELSE <<"basic", "blacklist", "rate_limit">>]} :
           /\ rateLimit' = IF stage = "limiter"
                           THEN Put(rateLimit, req.client_id, a.requests)
                           ELSE rateLimit
           /\ blacklist' = IF v.code = "RATE_LIMIT_EXCEEDED"
                           THEN addToBlacklist(blacklist, req.client_id)
                           ELSE blacklist
           /\ admitted' = IF stage = "limiter" /\ a.allowed
                          THEN [admitted EXCEPT ![req.client_id] = Append(@, now)]
                          ELSE admitted
           /\ spent' = IF stage = "limiter" /\ a.allowed /\ ~v.ok
                       THEN [spent EXCEPT ![req.client_id] = Append(@, now)]
                       ELSE spent
           /\ denied' = IF v.code = "RATE_LIMIT_EXCEEDED"
                        THEN Put(denied, req.client_id,
                                 [until |-> now + BlacklistDuration, cleared |-> FALSE])
                        ELSE denied
           /\ last' = [kind |-> "ValidateRequestReturn", thread |-> t, req |-> req,
                       code |-> v.code, ok |-> v.ok, stage |-> stage]
    /\ UNCHANGED <<now, whitelist, bakVars, proVars, hostVars, watchVars, xpcVars,
                   restoring>>

NextThreads ==
    \/ \E t \in Threads, req \in ThreadRequests : CallValidateRequest(t, req)
    \/ \E t \in Threads : Enter(t)
    \/ \E t \in Threads : Leave(t)
    \/ \E c \in Trusted : Acquirable /\ AddToWhitelist(c)
    \/ \E c \in Trusted : Acquirable /\ RemoveFromWhitelist(c)
    \/ Acquirable /\ ClearBlacklist
    \/ Tick

SpecThreads == Init /\ [][NextThreads]_vars


-----------------------------------------------------------------------------
(* Calls on the backup manager, and what happens to its files from outside *)

BackupCalls == {"CreateBackup", "RestoreBackup", "ValidateBackup", "DeleteBackup",
                "CleanupOldBackups"}

\* the history of the ids still in index idx
Kept(o, idx) == [id \in DOMAIN o \cap DOMAIN idx |-> o[id]]

\* the contents other processes give the hosts file
EditedContents == {"127.0.0.1 localhost", "127.0.0.1 dev"}

\* the arguments of the CreateBackup calls: source path, name, tags, automatic
CreateArgs ==
    { <<HostsPath, "", <<"manual">>, FALSE>>, <<HostsPath, "hosts-backup", <<>>, TRUE>>,
      <<"/etc/none", "", <<>>, FALSE>> }

\* the ids the calls name
BackupIDs == DOMAIN backupIndex \cup {"missing"}

\* the target paths of the RestoreBackup calls
RestoreTargets == {"", HostsPath}

\* a CreateBackup call; creating a backup takes one tick, so that the CreatedAt
\* instants of two backups differ.  The record keeps the ids the call removed.
CreateBackupCall(sourcePath, name, tags, automatic) ==
    /\ clock < MaxClock
    /\ \E r \in {CreateBackup(sourcePath, name, "", tags, automatic)} :
           /\ files' = r.files
           /\ backupIndex' = r.backupIndex
           /\ clock' = IF r.created THEN clock + 1 ELSE clock
           /\ modTime' = Stamp(r.files, IF r.created THEN {r.info.Path} ELSE {})
           /\ origin' = Kept(IF r.created
                             THEN Put(origin, r.info.ID,
                                      [path |-> sourcePath, content |-> files[sourcePath],
                                       name |-> name, second |-> clock \div TicksPerSecond,
                                       touched |-> FALSE])
                             ELSE origin, r.backupIndex)
           /\ last' = [kind |-> "CreateBackup", id |-> r.info.ID, target |-> sourcePath,
                       name |-> name, err |-> r.err, created |-> r.created,
                       evicted |-> DOMAIN backupIndex \ DOMAIN r.backupIndex]
    /\ UNCHANGED <<secVars, proVars, extVars>>

\* a RestoreBackup call; the record keeps what the target path held before it
RestoreBackupCall(backupID, targetPath) ==
    /\ \E r \in {RestoreBackup(backupID, targetPath)} :
           /\ files' = r.files
           /\ modTime' = Stamp(r.files,
                               IF r.err # Nil THEN {}
                               ELSE IF targetPath = ""
                               THEN {backupIndex[backupID].OriginalPath}
                               ELSE {targetPath})
           /\ last' = [kind |-> "RestoreBackup", id |-> backupID, target |-> targetPath,
                       err |-> r.err,
                       before |-> IF Exists(targetPath) THEN files[targetPath] ELSE ""]
    /\ UNCHANGED <<secVars, clock, backupIndex, origin, proVars, extVars>>

ValidateBackupCall(backupID) ==
    /\ last' = [kind |-> "ValidateBackup", id |-> backupID,
                err |-> ValidateBackup(backupID)]
    /\ UNCHANGED <<secVars, bakVars, proVars, extVars>>

\* a DeleteBackup call; the record keeps whether os.Remove found a file to remove
DeleteBackupCall(backupID) ==
    /\ \E r \in {DeleteBackup(backupID)} :
           /\ files' = r.files
           /\ modTime' = Stamp(r.files, {})
           /\ backupIndex' = r.backupIndex
           /\ origin' = Kept(origin, r.backupIndex)
           /\ last' = [kind |-> "DeleteBackup", id |-> backupID, err |-> r.err,
                       removed |-> DOMAIN r.files # DOMAIN files]
    /\ UNCHANGED <<secVars, clock, proVars, extVars>>

CleanupOldBackups ==
    /\ \E r \in {cleanupOldBackups(backupIndex, files)} :
           /\ files' = r.files
           /\ modTime' = Stamp(r.files, {})
           /\ backupIndex' = r.backupIndex
           /\ origin' = Kept(origin, r.backupIndex)
           /\ last' = [kind |-> "CleanupOldBackups", id |-> "", err |-> Nil]
    /\ UNCHANGED <<secVars, clock, proVars, extVars>>

\* another process rewrites the hosts file
WriteSource(content) ==
    /\ content # files[HostsPath]
    /\ files' = [files EXCEPT ![HostsPath] = content]
    /\ last' = NoCall
    /\ UNCHANGED <<secVars, clock, backupIndex, origin, modTime, proVars, extVars>>

\* the backups made by CreateBackup whose file nothing has changed yet
Untouched == {id \in DOMAIN origin : ~origin[id].touched}

\* the file of a backup loses its last byte; the process that does it puts the
\* modification time back
Truncate(backupID) ==
    /\ files' = [files EXCEPT ![backupIndex[backupID].Path] = SubSeq(@, 1, Len(@) - 1)]
    /\ origin' = [origin EXCEPT ![backupID].touched = TRUE]
    /\ last' = NoCall
    /\ UNCHANGED <<secVars, clock, backupIndex, modTime, proVars, extVars>>

\* the last byte of the file of a backup is overwritten; the process that does
\* it puts the modification time back
Alter(backupID) ==
    /\ files' = [files EXCEPT ![backupIndex[backupID].Path] =
                                 SubSeq(@, 1, Len(@) - 1) \o "#"]
    /\ origin' = [origin EXCEPT ![backupID].touched = TRUE]
    /\ last' = NoCall
    /\ UNCHANGED <<secVars, clock, backupIndex, modTime, proVars, extVars>>

\* time passes
BackupTick ==
    /\ clock < MaxClock
    /\ clock' = clock + 1
    /\ last' = NoCall
    /\ UNCHANGED <<secVars, files, backupIndex, origin, modTime, proVars, extVars>>

NextBackup ==
    \/ \E a \in CreateArgs : CreateBackupCall(a[1], a[2], a[3], a[4])
    \/ \E id \in BackupIDs, t \in RestoreTargets : RestoreBackupCall(id, t)
    \/ \E id \in BackupIDs : ValidateBackupCall(id)
    \/ \E id \in BackupIDs : DeleteBackupCall(id)
    \/ CleanupOldBackups
    \/ \E c \in EditedContents : WriteSource(c)
    \/ \E id \in Untouched : Truncate(id)
    \/ \E id \in Untouched : Alter(id)
    \/ BackupTick

SpecBackup == Init /\ [][NextBackup]_vars

-----------------------------------------------------------------------------
(* The backup manager over several process lifetimes, its directory open to
   other processes and to RestoreBackup *)

\* the target paths of the RestoreBackup calls: the original path, and the file
\* of the backup found at startup
DirectoryTargets == {"", BackupDir \o "/old.backup"}

\* the arguments of the CreateBackup calls
DirectoryCreateArgs == { <<HostsPath, "", <<"manual">>, FALSE>> }

\* the process ends and a new one starts: NewBackupManagerImpl makes an empty
\* index and loadBackupIndex fills it from the backup directory
Restart ==
    /\ \E idx \in {loadBackupIndex(files, modTime)} :
           /\ backupIndex' = idx
           /\ origin' = Kept(origin, idx)
    /\ last' = [kind |-> "Restart", id |-> "", err |-> Nil]
    /\ UNCHANGED <<secVars, clock, files, modTime, proVars, extVars>>

\* another process removes the file of a backup
RemoveFile(backupID) ==
    /\ Exists(backupIndex[backupID].Path)
    /\ \E fs \in {Delete(files, backupIndex[backupID].Path)} :
           /\ files' = fs
           /\ modTime' = Stamp(fs, {})
    /\ origin' = IF backupID \in DOMAIN origin
                 THEN [origin EXCEPT ![backupID].touched = TRUE]
                 ELSE origin
    /\ last' = NoCall
    /\ UNCHANGED <<secVars, clock, backupIndex, proVars, extVars>>

NextRestart ==
    \/ \E a \in DirectoryCreateArgs : CreateBackupCall(a[1], a[2], a[3], a[4])
    \/ \E id \in BackupIDs, t \in DirectoryTargets : RestoreBackupCall(id, t)
    \/ \E id \in BackupIDs : ValidateBackupCall(id)
    \/ \E id \in BackupIDs : DeleteBackupCall(id)
    \/ CleanupOldBackups
    \/ Restart
    \/ \E id \in DOMAIN backupIndex : RemoveFile(id)
    \/ \E id \in Untouched : Alter(id)
    \/ BackupTick

SpecRestart == Init /\ [][NextRestart]_vars

-----------------------------------------------------------------------------
(* A RestoreBackup call beside other calls on the backup manager.  RestoreBackup
   holds bm.mu only while it looks the backup up; CreateBackup, DeleteBackup and
   CleanupOldBackups hold it from start to end. *)

\* RestoreBackup takes the read lock, looks backupID up and gives the lock back
RestoreLookup(backupID, targetPath) ==
    /\ restoring = Idle
    /\ IF backupID \in DOMAIN backupIndex
       THEN /\ restoring' = [pc |-> "stat", info |-> backupIndex[backupID],
                             targetPath |-> targetPath]
            /\ last' = NoCall
       ELSE /\ restoring' = Idle
            /\ last' = [kind |-> "RestoreReturn", info |-> NoInfo, target |-> targetPath,
                        err |-> Err("BACKUP_NOT_FOUND", "backup not found: " \o backupID)]
    /\ UNCHANGED <<secVars, bakVars, proVars, hostVars, watchVars, xpcVars, thrVars>>

\* os.Stat(backupInfo.Path)
RestoreStat ==
    /\ restoring.pc = "stat"
    /\ IF Exists(restoring.info.Path)
       THEN /\ restoring' = [restoring EXCEPT !.pc = "verify"]
            /\ last' = NoCall
       ELSE /\ restoring' = Idle
            /\ last' = [kind |-> "RestoreReturn", info |-> restoring.info,
                        target |-> restoring.targetPath,
                        err |-> Err("FILE_NOT_FOUND", "backup file does not exist: "
                                                      \o restoring.info.Path)]
    /\ UNCHANGED <<secVars, bakVars, proVars, hostVars, watchVars, xpcVars, thrVars>>

\* the checksum of the file is compared with the recorded one; a checksum that
\* cannot be computed is logged and the call goes on
RestoreVerify ==
    /\ restoring.pc = "verify"
    /\ \E currentChecksum \in {calculateChecksum(files, restoring.info.Path)} :
           IF /\ restoring.info.Checksum # ""
              /\ currentChecksum.err = ""
              /\ currentChecksum.sum # restoring.info.Checksum
           THEN /\ restoring' = Idle
                /\ last' = [kind |-> "RestoreReturn", info |-> restoring.info,
                            target |-> restoring.targetPath,
                            err |-> Err("BACKUP_CORRUPTED",
                                        "backup file corrupted: checksum mismatch")]
           ELSE /\ restoring' = [restoring EXCEPT !.pc = "copy"]
                /\ last' = NoCall
    /\ UNCHANGED <<secVars, bakVars, proVars, hostVars, watchVars, xpcVars, thrVars>>

\* copyFile(backupInfo.Path, targetPath), and the return
RestoreCopy ==
    /\ restoring.pc = "copy"
    /\ \E target \in {IF restoring.targetPath = "" THEN restoring.info.OriginalPath
                       ELSE restoring.targetPath} :
       \E copied \in {copyFile(files, restoring.info.Path, target)} :
           /\ files' = copied.files
           /\ modTime' = Stamp(copied.files, IF copied.err = "" THEN {target} ELSE {})
           /\ last' = [kind |-> "RestoreReturn", info |-> restoring.info,
                       target |-> target,
                       err |-> IF copied.err = "" THEN Nil
                               ELSE Err("", "failed to restore file: " \o copied.err)]
    /\ restoring' = Idle
    /\ UNCHANGED <<secVars, clock, backupIndex, origin, proVars, hostVars, watchVars,
                   xpcVars, thrVars>>

NextRestore ==
    \/ \E id \in BackupIDs, t \in RestoreTargets : RestoreLookup(id, t)
    \/ RestoreStat
    \/ RestoreVerify
    \/ RestoreCopy
    \/ \E a \in DirectoryCreateArgs : CreateBackupCall(a[1], a[2], a[3], a[4])
    \/ \E id \in BackupIDs : DeleteBackupCall(id)
    \/ CleanupOldBackups
    \/ \E c \in EditedContents : WriteSource(c)
    \/ BackupTick

SpecRestore == Init /\ [][NextRestore]_vars

-----------------------------------------------------------------------------
(* The profile manager: profile.ManagerImpl *)

\* the number of identifiers generateID hands out
MaxProfiles == 3

ErrProfileNotFound == "profile not found"
ErrProfileExists == "profile already exists"
ErrActiveProfile == "active profile error"
ErrInvalidProfileName == "invalid profile name"

\* models.generateID, made of the clock and four random bytes, and the identifier
\* ImportProfile and CloneProfile make of the clock: a new one at every call
generateID == "p" \o ToString(nextID)

\* models.NewProfile
NewProfile(name, description) ==
    [ID |-> generateID, Name |-> name, Description |-> description, IsActive |-> FALSE]

\* Profile.Validate, of a profile without entries
Validate(profile) == IF profile.Name = "" THEN ErrInvalidProfileName ELSE ""

\* some profile of ps has the name
NameExists(ps, name) == \E id \in DOMAIN ps : ps[id].Name = name

\* saveProfiles: what is written to profiles.json
saveProfiles(ps, active) == [exists |-> TRUE, profiles |-> ps, active_id |-> active]

\* what a call returns and leaves: the error ("" for nil), the profile returned,
\* the map and the active id, and whether it reached saveProfiles
Result(err, profile, ps, active, saved) ==
    [err |-> err, profile |-> profile, profiles |-> ps, activeID |-> active,
     saved |-> saved]

\* CreateProfile, were it to activate every profile it makes
CreateProfileActivating(name, description) ==
    IF NameExists(profiles, name)
    THEN Result(ErrProfileExists, NoProfile, profiles, activeID, FALSE)
    ELSE LET profile == NewProfile(name, description)
             stored == [profile EXCEPT !.IsActive = TRUE]
         IN  Result("", stored, Put(profiles, profile.ID, stored), profile.ID, TRUE)

CreateProfile(name, description) ==
    IF NameExists(profiles, name)
    THEN Result(ErrProfileExists, NoProfile, profiles, activeID, FALSE)
    ELSE LET profile == NewProfile(name, description)
             first == Cardinality(DOMAIN profiles \cup {profile.ID}) = 1
             stored == [profile EXCEPT !.IsActive = first]
         IN  Result("", stored, Put(profiles, profile.ID, stored),
                    IF first THEN profile.ID ELSE activeID, TRUE)

GetProfile(id) ==
    IF id \notin DOMAIN profiles
    THEN Result(ErrProfileNotFound, NoProfile, profiles, activeID, FALSE)
    ELSE Result("", profiles[id], profiles, activeID, FALSE)

\* UpdateProfile: the profile handed in takes the place of the stored one, with
\* every field it carries
UpdateProfile(profile) ==
    IF profile.ID \notin DOMAIN profiles
    THEN Result(ErrProfileNotFound, NoProfile, profiles, activeID, FALSE)
    ELSE IF Validate(profile) # ""
    THEN Result(Validate(profile), NoProfile, profiles, activeID, FALSE)
    ELSE IF \E id \in DOMAIN profiles :
                id # profile.ID /\ profiles[id].Name = profile.Name
    THEN Result(ErrProfileExists, NoProfile, profiles, activeID, FALSE)
    ELSE Result("", profile, Put(profiles, profile.ID, profile), activeID, TRUE)

DeleteProfile(id) ==
    IF id \notin DOMAIN profiles
    THEN Result(ErrProfileNotFound, NoProfile, profiles, activeID, FALSE)
    ELSE IF profiles[id].IsActive
    THEN Result(ErrActiveProfile, NoProfile, profiles, activeID, FALSE)
    ELSE Result("", NoProfile, Delete(profiles, id), activeID, TRUE)

ActivateProfile(id) ==
    IF id \notin DOMAIN profiles
    THEN Result(ErrProfileNotFound, NoProfile, profiles, activeID, FALSE)
    ELSE LET cleared == IF activeID # "" /\ activeID \in DOMAIN profiles
                        THEN [profiles EXCEPT ![activeID].IsActive = FALSE]
                        ELSE profiles
         IN  Result("", NoProfile, [cleared EXCEPT ![id].IsActive = TRUE], id, TRUE)

GetActiveProfile ==
    IF activeID = "" \/ activeID \notin DOMAIN profiles
    THEN Result(ErrProfileNotFound, NoProfile, profiles, activeID, FALSE)
    ELSE Result("", profiles[activeID], profiles, activeID, FALSE)

RECURSIVE FreeName(_, _, _)
\* the name ImportProfile settles on: the original one, or the first
\* "name (counter)" that no profile has
FreeName(originalName, name, counter) ==
    IF ~NameExists(profiles, name) THEN name
    ELSE FreeName(originalName,
                  originalName \o " (" \o ToString(counter) \o ")", counter + 1)

\* ImportProfile of a file that holds the profile `parsed`
ImportProfile(parsed) ==
    IF Validate(parsed) # ""
    THEN Result(Validate(parsed), NoProfile, profiles, activeID, FALSE)
    ELSE LET profile == [ID |-> generateID,
                         Name |-> FreeName(parsed.Name, parsed.Name, 1),
                         Description |-> parsed.Description, IsActive |-> FALSE]
         IN  Result("", profile, Put(profiles, profile.ID, profile), activeID, TRUE)

CloneProfile(id, newName) ==
    IF id \notin DOMAIN profiles
    THEN Result(ErrProfileNotFound, NoProfile, profiles, activeID, FALSE)
    ELSE IF NameExists(profiles, newName)
    THEN Result(ErrProfileExists, NoProfile, profiles, activeID, FALSE)
    ELSE LET cloned == [ID |-> generateID, Name |-> newName,
                        Description |-> profiles[id].Description, IsActive |-> FALSE]
         IN  Result("", cloned, Put(profiles, cloned.ID, cloned), activeID, TRUE)

\* the names the caller gives profiles
ProfileNames == {"Profile 1", "Profile 2"}

\* the ids the calls name
ProfileIDs == DOMAIN profiles \cup {"nonexistent"}

\* the profiles the files handed to ImportProfile hold
ImportFiles ==
    { [ID |-> "exported", Name |-> "Profile 1", Description |-> "", IsActive |-> TRUE],
      [ID |-> "exported", Name |-> "", Description |-> "", IsActive |-> FALSE] }

\* the profiles the caller hands to UpdateProfile: the copy it holds, as it is
\* or renamed, and a profile the manager never had
UpdateArgs ==
    (IF held = NoProfile THEN {}
     ELSE {held} \cup {[held EXCEPT !.Name = name] : name \in ProfileNames \cup {""}})
    \cup {[ID |-> "nonexistent", Name |-> "", Description |-> "", IsActive |-> FALSE]}

\* what a call that returned r leaves in the manager and in profiles.json
Left(r) ==
    /\ profiles' = r.profiles
    /\ activeID' = r.activeID
    /\ profileFile' = IF r.saved THEN saveProfiles(r.profiles, r.activeID)
                      ELSE profileFile

\* a call that makes a profile takes an identifier
Taken(r) ==
    nextID' = IF r.err = "" THEN nextID + 1 ELSE nextID

CreateProfileCall(name) ==
    /\ nextID <= MaxProfiles
    /\ \E r \in {CreateProfile(name, "")} :
           /\ Left(r)
           /\ Taken(r)
           /\ last' = [kind |-> "CreateProfile", id |-> r.profile.ID, err |-> r.err,
                       name |-> name]
    /\ UNCHANGED <<secVars, bakVars, held, extVars>>

\* a GetProfile call; the caller keeps the copy it returns
GetProfileCall(id) ==
    /\ \E r \in {GetProfile(id)} :
           /\ held' = IF r.err = "" THEN r.profile ELSE held
           /\ last' = [kind |-> "GetProfile", id |-> id, err |-> r.err]
    /\ UNCHANGED <<secVars, bakVars, profiles, activeID, profileFile, nextID, extVars>>

UpdateProfileCall(profile) ==
    /\ \E r \in {UpdateProfile(profile)} :
           /\ Left(r)
           /\ last' = [kind |-> "UpdateProfile", id |-> profile.ID, err |-> r.err]
    /\ UNCHANGED <<secVars, bakVars, held, nextID, extVars>>

DeleteProfileCall(id) ==
    /\ \E r \in {DeleteProfile(id)} :
           /\ Left(r)
           /\ last' = [kind |-> "DeleteProfile", id |-> id, err |-> r.err]
    /\ UNCHANGED <<secVars, bakVars, held, nextID, extVars>>

ActivateProfileCall(id) ==
    /\ \E r \in {ActivateProfile(id)} :
           /\ Left(r)
           /\ last' = [kind |-> "ActivateProfile", id |-> id, err |-> r.err]
    /\ UNCHANGED <<secVars, bakVars, held, nextID, extVars>>

GetActiveProfileCall ==
    /\ \E r \in {GetActiveProfile} :
           last' = [kind |-> "GetActiveProfile", id |-> r.profile.ID, err |-> r.err]
    /\ UNCHANGED <<secVars, bakVars, proVars, extVars>>

ImportProfileCall(parsed) ==
    /\ nextID <= MaxProfiles
    /\ \E r \in {ImportProfile(parsed)} :
           /\ Left(r)
           /\ Taken(r)
           /\ last' = [kind |-> "ImportProfile", id |-> r.profile.ID, err |-> r.err]
    /\ UNCHANGED <<secVars, bakVars, held, extVars>>

CloneProfileCall(id, newName) ==
    /\ nextID <= MaxProfiles
    /\ \E r \in {CloneProfile(id, newName)} :
           /\ Left(r)
           /\ Taken(r)
           /\ last' = [kind |-> "CloneProfile", id |-> r.profile.ID, err |-> r.err]
    /\ UNCHANGED <<secVars, bakVars, held, extVars>>

NextProfile ==
    \/ \E name \in ProfileNames : CreateProfileCall(name)
    \/ \E id \in ProfileIDs : GetProfileCall(id)
    \/ \E profile \in UpdateArgs : UpdateProfileCall(profile)
    \/ \E id \in ProfileIDs : DeleteProfileCall(id)
    \/ \E id \in ProfileIDs : ActivateProfileCall(id)
    \/ GetActiveProfileCall
    \/ \E parsed \in ImportFiles : ImportProfileCall(parsed)
    \/ \E id \in ProfileIDs, name \in ProfileNames : CloneProfileCall(id, name)

SpecProfile == Init /\ [][NextProfile]_vars

-----------------------------------------------------------------------------
(* The hosts file manager: host.ManagerImpl *)

\* the number of calls on the hosts file manager the model explores
MaxHostCalls == 4

\* ManagerImpl.managedMark, set by NewManager
managedMark == "# mHost managed section"

ErrInvalidProfile == "invalid profile"

\* bufio.ScanLines' dropCR
dropCR(data) == TrimSuffix(data, "\r")

RECURSIVE ScanLines(_)
\* the tokens bufio.Scanner yields with bufio.ScanLines: the text up to each
\* newline, and what follows the last newline when it is not empty
ScanLines(data) ==
    IF data = "" THEN <<>>
    ELSE IF \E i \in 1..Len(data) : SubSeq(data, i, i) = "\n"
    THEN LET i == CHOOSE k \in 1..Len(data) :
                    /\ SubSeq(data, k, k) = "\n"
                    /\ \A j \in 1..(k - 1) : SubSeq(data, j, j) # "\n"
         IN  <<dropCR(SubSeq(data, 1, i - 1))>> \o ScanLines(SubSeq(data, i + 1, Len(data)))
    ELSE <<dropCR(data)>>

\* ReadHostsFile of a file that holds the bytes `data`
ReadHostsFile(data) == ScanLines(data)

RECURSIVE WriteHostsFile(_)
\* WriteHostsFile: the bytes the hosts file holds once the lines are written
WriteHostsFile(lines) ==
    IF lines = <<>> THEN ""
    ELSE Head(lines) \o "\n" \o WriteHostsFile(Tail(lines))

RECURSIVE removeManagedSectionFrom(_, _)
\* the loop of removeManagedSection over the lines left, inManagedSection as
\* the loop holds it
removeManagedSectionFrom(lines, inManagedSection) ==
    IF lines = <<>> THEN <<>>
    ELSE IF Contains(Head(lines), managedMark \o " START")
    THEN removeManagedSectionFrom(Tail(lines), TRUE)
    ELSE IF Contains(Head(lines), managedMark \o " END")
    THEN removeManagedSectionFrom(Tail(lines), FALSE)
    ELSE IF ~inManagedSection
    THEN <<Head(lines)>> \o removeManagedSectionFrom(Tail(lines), inManagedSection)
    ELSE removeManagedSectionFrom(Tail(lines), inManagedSection)

removeManagedSection(lines) == removeManagedSectionFrom(lines, FALSE)

\* time.Now().Format(time.RFC3339), of an instant of the first seconds of a day
RFC3339(t) == "2024-01-01T00:00:0" \o ToString(t) \o "Z"

RECURSIVE entryLines(_)
\* the lines ApplyProfile and UpdateManagedSection write for the entries: one
\* for each enabled entry
entryLines(entries) ==
    IF entries = <<>> THEN <<>>
    ELSE LET entry == Head(entries)
             line == entry.IP \o "\t" \o entry.Hostname
                     \o (IF entry.Comment # "" THEN "\t# " \o entry.Comment ELSE "")
         IN  (IF entry.Enabled THEN <<line>> ELSE <<>>) \o entryLines(Tail(entries))

\* ApplyProfile: the error returned ("" for nil) and the bytes the hosts file
\* holds after the call
ApplyProfile(profile) ==
    IF profile = NoProfile
    THEN [err |-> ErrInvalidProfile, hostsFile |-> hostsFile]
    ELSE LET lines == ReadHostsFile(hostsFile)
             newLines == removeManagedSection(lines)
             section == IF Len(profile.Entries) > 0
                        THEN <<"", managedMark \o " START",
                               "# Profile: " \o profile.Name,
                               "# Applied at: " \o RFC3339(hostsTime)>>
                             \o entryLines(profile.Entries)
                             \o <<managedMark \o " END">>
                        ELSE <<>>
         IN  [err |-> "", hostsFile |-> WriteHostsFile(newLines \o section)]

UpdateManagedSection(entries) ==
    LET lines == ReadHostsFile(hostsFile)
        newLines == removeManagedSection(lines)
        section == IF Len(entries) > 0
                   THEN <<"", managedMark \o " START",
                          "# Updated at: " \o RFC3339(hostsTime)>>
                        \o entryLines(entries)
                        \o <<managedMark \o " END">>
                   ELSE <<>>
    IN  [err |-> "", hostsFile |-> WriteHostsFile(newLines \o section)]

\* the entries the callers hand over
HostEntry(ip, hostname, comment, enabled) ==
    [IP |-> ip, Hostname |-> hostname, Comment |-> comment, Enabled |-> enabled]

\* the entry lists of the calls: none, one enabled entry, an enabled entry with
\* a comment and a disabled one, only a disabled one
EntryLists ==
    { <<>>,
      <<HostEntry("192.168.1.10", "app.local", "", TRUE)>>,
      <<HostEntry("192.168.1.10", "app.local", "Application server", TRUE),
        HostEntry("192.168.1.20", "db.local", "", FALSE)>>,
      <<HostEntry("192.168.1.20", "db.local", "", FALSE)>> }

\* the profiles handed to ApplyProfile: nil, and one for each entry list
AppliedProfiles ==
    {NoProfile} \cup {[ID |-> "test-profile", Name |-> "Test Profile", Entries |-> e] :
                         e \in EntryLists}

ApplyProfileCall(profile) ==
    /\ hostsTime < MaxHostCalls
    /\ \E r \in {ApplyProfile(profile)} :
           /\ hostsFile' = r.hostsFile
           /\ last' = [kind |-> "ApplyProfile", err |-> r.err,
                       empty |-> profile # NoProfile /\ Len(profile.Entries) = 0]
    /\ hostsTime' = hostsTime + 1
    /\ UNCHANGED <<secVars, bakVars, proVars, watchVars, xpcVars, thrVars, restoring>>

UpdateManagedSectionCall(entries) ==
    /\ hostsTime < MaxHostCalls
    /\ \E r \in {UpdateManagedSection(entries)} :
           /\ hostsFile' = r.hostsFile
           /\ last' = [kind |-> "UpdateManagedSection", err |-> r.err,
                       empty |-> Len(entries) = 0]
    /\ hostsTime' = hostsTime + 1
    /\ UNCHANGED <<secVars, bakVars, proVars, watchVars, xpcVars, thrVars, restoring>>

NextHosts ==
    \/ \E profile \in AppliedProfiles : ApplyProfileCall(profile)
    \/ \E entries \in EntryLists : UpdateManagedSectionCall(entries)

SpecHosts == Init /\ [][NextHosts]_vars

-----------------------------------------------------------------------------
(* The configuration watcher: config.ManagerImpl.WatchConfig, StopWatching and
   watchConfigFile.  Channels are numbered in the order they are made: 0 is the
   one NewManager makes, n the one the n-th successful WatchConfig makes, which
   also starts goroutine n. *)

\* the number of successful WatchConfig calls the model explores
MaxWatches == 2

\* a StopWatching that closes the channel whether or not the manager watches
StopWatchingUnguarded ==
    [watching |-> FALSE, closedChans |-> closedChans \cup {stopChan},
     panic |-> stopChan \in closedChans]

\* WatchConfig: the error returned ("" for nil), the fields afterwards and
\* whether it started a goroutine
WatchConfig ==
    IF watching
    THEN [err |-> "already watching config file", watching |-> watching,
          stopChan |-> stopChan, started |-> FALSE]
    ELSE [err |-> "", watching |-> TRUE, stopChan |-> stopChan + 1, started |-> TRUE]

\* StopWatching: the fields afterwards, and whether close() met a closed
\* channel, which panics
StopWatching ==
    IF watching
    THEN [watching |-> FALSE, closedChans |-> closedChans \cup {stopChan},
          panic |-> stopChan \in closedChans]
    ELSE [watching |-> watching, closedChans |-> closedChans, panic |-> FALSE]

\* a goroutine as `go m.watchConfigFile(callback)` leaves it; `stopped` and
\* `late` are history: StopWatching has returned since it was started, and it
\* has invoked the callback after that
NewWatcher == [pc |-> "loop", ch |-> 0, stopped |-> FALSE, late |-> FALSE]

WatchConfigCall ==
    /\ watching \/ stopChan < MaxWatches
    /\ \E r \in {WatchConfig} :
           /\ watching' = r.watching
           /\ stopChan' = r.stopChan
           /\ watchers' = IF r.started THEN Append(watchers, NewWatcher) ELSE watchers
           /\ last' = [kind |-> "WatchConfig", err |-> r.err]
    /\ UNCHANGED <<secVars, bakVars, proVars, hostVars, closedChans, xpcVars, thrVars,
                   restoring>>

StopWatchingCall ==
    /\ \E r \in {StopWatching} :
           /\ watching' = r.watching
           /\ closedChans' = r.closedChans
           /\ watchers' = IF watching
                          THEN [g \in DOMAIN watchers |->
                                  [watchers[g] EXCEPT !.stopped = TRUE]]
                          ELSE watchers
           /\ last' = [kind |-> "StopWatching", panic |-> r.panic]
    /\ UNCHANGED <<secVars, bakVars, proVars, hostVars, stopChan, xpcVars, thrVars,
                   restoring>>

\* goroutine g reaches the select statement and evaluates m.stopChan, a read no
\* lock orders with the writes of later WatchConfig calls: it sees the channel
\* of its own WatchConfig or one stored since
EnterSelect(g, ch) ==
    /\ g \in DOMAIN watchers
    /\ watchers[g].pc = "loop"
    /\ ch \in g..stopChan
    /\ watchers' = [watchers EXCEPT ![g].pc = "select", ![g].ch = ch]
    /\ last' = NoCall
    /\ UNCHANGED <<secVars, bakVars, proVars, hostVars, watching, stopChan, closedChans,
                   xpcVars, thrVars, restoring>>

\* case <-m.stopChan: the channel the select waits on is closed, the goroutine
\* returns
Stopped(g) ==
    /\ g \in DOMAIN watchers
    /\ watchers[g].pc = "select"
    /\ watchers[g].ch \in closedChans
    /\ watchers' = [watchers EXCEPT ![g].pc = "done"]
    /\ last' = NoCall
    /\ UNCHANGED <<secVars, bakVars, proVars, hostVars, watching, stopChan, closedChans,
                   xpcVars, thrVars, restoring>>

\* case <-ticker.C: the goroutine looks at the file and, when it has changed
\* and loads, invokes the callback; then it goes round the loop
Ticked(g, changed) ==
    /\ g \in DOMAIN watchers
    /\ watchers[g].pc = "select"
    /\ watchers' = [watchers EXCEPT ![g].pc = "loop",
                                    ![g].late = @ \/ (changed /\ watchers[g].stopped)]
    /\ last' = IF changed THEN [kind |-> "callback", g |-> g] ELSE NoCall
    /\ UNCHANGED <<secVars, bakVars, proVars, hostVars, watching, stopChan, closedChans,
                   xpcVars, thrVars, restoring>>

NextWatcher ==
    \/ WatchConfigCall
    \/ StopWatchingCall
    \/ \E g \in 1..MaxWatches, ch \in 1..MaxWatches : EnterSelect(g, ch)
    \/ \E g \in 1..MaxWatches : Stopped(g)
    \/ \E g \in 1..MaxWatches, changed \in BOOLEAN : Ticked(g, changed)

SpecWatcher == Init /\ [][NextWatcher]_vars

\* the scheduler runs every goroutine that can run, and a select whose stop
\* channel is closed again and again takes that case in the end
SpecWatcherLive ==
    /\ SpecWatcher
    /\ \A g \in 1..MaxWatches :
          /\ WF_vars(\E ch \in 1..MaxWatches : EnterSelect(g, ch))
          /\ SF_vars(Stopped(g))

-----------------------------------------------------------------------------
(* The XPC server: XPCServerImpl.Start, Stop and messageLoop, and
   HostsHelper.Start and Stop, which call them.  The server's context is made
   once, by NewXPCServerImpl. *)

\* the number of messageLoop goroutines the model explores
MaxStarts == 3

\* XPCServerImpl.Start: the error returned ("" for nil), the running flag
\* afterwards and whether it started a messageLoop goroutine
ServerStart(handler) ==
    IF xpcRunning
    THEN [err |-> "XPC server is already running", running |-> xpcRunning,
          started |-> FALSE]
    ELSE IF handler = "nil"
    THEN [err |-> "request handler cannot be nil", running |-> xpcRunning,
          started |-> FALSE]
    ELSE [err |-> "", running |-> TRUE, started |-> TRUE]

\* XPCServerImpl.Stop: the error returned, the running flag and the state of
\* the context afterwards
ServerStop ==
    IF ~xpcRunning
    THEN [err |-> "", running |-> xpcRunning, cancelled |-> xpcCancelled]
    ELSE [err |-> "", running |-> FALSE, cancelled |-> TRUE]

\* what a Start that returned r leaves in the server
Started(r) ==
    /\ xpcRunning' = r.running
    /\ loops' = IF r.started THEN Append(loops, "running") ELSE loops

ServerStartCall(handler) ==
    /\ Len(loops) < MaxStarts
    /\ \E r \in {ServerStart(handler)} :
           /\ Started(r)
           /\ last' = [kind |-> "ServerStart", err |-> r.err]
    /\ UNCHANGED <<secVars, bakVars, proVars, hostVars, watchVars, xpcCancelled,
                   helperRunning, thrVars, restoring>>

ServerStopCall ==
    /\ \E r \in {ServerStop} :
           /\ xpcRunning' = r.running
           /\ xpcCancelled' = r.cancelled
           /\ last' = [kind |-> "ServerStop", err |-> r.err]
    /\ UNCHANGED <<secVars, bakVars, proVars, hostVars, watchVars, loops, helperRunning,
                   thrVars, restoring>>

\* HostsHelper.Start
HelperStartCall ==
    /\ Len(loops) < MaxStarts
    /\ IF helperRunning
       THEN /\ last' = [kind |-> "HelperStart", err |-> "HostsHelper is already running"]
            /\ UNCHANGED <<xpcRunning, loops, helperRunning>>
       ELSE \E r \in {ServerStart("handleXPCRequest")} :
               /\ Started(r)
               /\ helperRunning' = (r.err = "")
               /\ last' = [kind |-> "HelperStart",
                           err |-> IF r.err = "" THEN ""
                                   ELSE "failed to start XPC server: " \o r.err]
    /\ UNCHANGED <<secVars, bakVars, proVars, hostVars, watchVars, xpcCancelled, thrVars,
                   restoring>>

\* HostsHelper.Stop
HelperStopCall ==
    /\ IF ~helperRunning
       THEN UNCHANGED <<xpcRunning, xpcCancelled, helperRunning>>
       ELSE \E r \in {ServerStop} :
               /\ xpcRunning' = r.running
               /\ xpcCancelled' = r.cancelled
               /\ helperRunning' = FALSE
    /\ last' = [kind |-> "HelperStop", err |-> ""]
    /\ UNCHANGED <<secVars, bakVars, proVars, hostVars, watchVars, loops, thrVars,
                   restoring>>

\* messageLoop of goroutine g finds s.ctx.Done() closed and returns; as long as
\* the context is not cancelled it sleeps and looks again
MessageLoopReturns(g) ==
    /\ g \in DOMAIN loops
    /\ loops[g] = "running"
    /\ xpcCancelled
    /\ loops' = [loops EXCEPT ![g] = "returned"]
    /\ last' = NoCall
    /\ UNCHANGED <<secVars, bakVars, proVars, hostVars, watchVars, xpcRunning,
                   xpcCancelled, helperRunning, thrVars, restoring>>

NextServer ==
    \/ \E handler \in {"nil", "handler"} : ServerStartCall(handler)
    \/ ServerStopCall
    \/ HelperStartCall
    \/ HelperStopCall
    \/ \E g \in 1..MaxStarts : MessageLoopReturns(g)

SpecServer == Init /\ [][NextServer]_vars

-----------------------------------------------------------------------------
(* The dispatcher: HostsHelper.handleXPCRequest and its handlers *)

\* an XPCResponse
Response(success, data, error) == [Success |-> success, Data |-> data, Error |-> error]

\* HostsHandler.WriteHosts: logs the number of entries, returns nil
WriteHosts(entries) == Nil

\* HostsHandler.ValidateHosts: logs, returns nil
ValidateHosts == Nil

\* the error convertToHostEntries finds in element i of the data
convertError(e, i) ==
    IF "map" \notin DOMAIN e THEN "invalid entry format at index " \o ToString(i - 1)
    ELSE IF ~IsStr(e.map, "ip") THEN "missing or invalid ip at index " \o ToString(i - 1)
    ELSE IF ~IsStr(e.map, "hostname")
    THEN "missing or invalid hostname at index " \o ToString(i - 1)
    ELSE ""

convertToHostEntries(data) ==
    IF \E i \in 1..Len(data) : convertError(data[i], i) # ""
    THEN LET i == CHOOSE k \in 1..Len(data) :
                    /\ convertError(data[k], k) # ""
                    /\ \A j \in 1..(k - 1) : convertError(data[j], j) = ""
         IN  [err |-> convertError(data[i], i), entries |-> <<>>]
    ELSE [err |-> "",
          entries |-> [i \in 1..Len(data) |->
                         [IP |-> data[i].map["ip"].str,
                          Hostname |-> data[i].map["hostname"].str]]]

\* what a handler leaves: the response, the operations it performed in order,
\* and the backup manager's index and files
Handled(resp, calls, idx, fs, created) ==
    [resp |-> resp, calls |-> calls, backupIndex |-> idx, files |-> fs,
     created |-> created]

handleWriteHosts(req) ==
    LET params == req.parameters
        converted == convertToHostEntries(params["entries"].arr)
        fail(error) == Handled(Response(FALSE, EmptyMap, error), <<>>,
                               backupIndex, files, NoInfo)
    IN  IF "entries" \notin DOMAIN params THEN fail("missing entries parameter")
        ELSE IF "arr" \notin DOMAIN params["entries"] THEN fail("invalid entries format")
        ELSE IF converted.err # ""
        THEN fail("failed to convert entries: " \o converted.err)
        ELSE IF WriteHosts(converted.entries) # Nil
        THEN Handled(Response(FALSE, EmptyMap, "failed to write hosts file: "
                                               \o WriteHosts(converted.entries).msg),
                     <<"WriteHosts">>, backupIndex, files, NoInfo)
        ELSE Handled(Response(TRUE, [entries_written |-> Len(converted.entries)], ""),
                     <<"WriteHosts">>, backupIndex, files, NoInfo)

\* the string parameter k of the request, "" when absent or not a string
StringParam(req, k) ==
    IF IsStr(req.parameters, k) THEN req.parameters[k].str ELSE ""

handleBackupHosts(req) ==
    LET name == IF StringParam(req, "name") # "" THEN StringParam(req, "name")
                ELSE "hosts-backup"
        description == IF StringParam(req, "description") # ""
                       THEN StringParam(req, "description")
                       ELSE "Automatic hosts file backup"
        r == CreateBackup(HostsPath, name, description, <<"hosts">>, TRUE)
    IN  IF r.err # Nil
        THEN Handled(Response(FALSE, EmptyMap, "Failed to create backup: " \o r.err.msg),
                     <<"CreateBackup">>, r.backupIndex, r.files, NoInfo)
        ELSE Handled(Response(TRUE, [backup_id |-> r.info.ID, backup_path |-> r.info.Path,
                                     created_at |-> r.info.CreatedAt, size |-> r.info.Size],
                              ""),
                     <<"CreateBackup">>, r.backupIndex, r.files,
                     IF r.created THEN r.info ELSE NoInfo)

handleRestoreHosts(req) ==
    LET backupID == IF IsStr(req.parameters, "backup_id")
                    THEN req.parameters["backup_id"].str
                    ELSE Base(TrimSuffix(StringParam(req, "backup_path"), ".backup"))
        targetPath == IF StringParam(req, "target_path") # ""
                      THEN StringParam(req, "target_path") ELSE "/etc/hosts"
        r == RestoreBackup(backupID, targetPath)
    IN  IF ~IsStr(req.parameters, "backup_id") /\ ~IsStr(req.parameters, "backup_path")
        THEN Handled(Response(FALSE, EmptyMap,
                              "backup_id or backup_path parameter is required"),
                     <<>>, backupIndex, files, NoInfo)
        ELSE IF r.err # Nil
        THEN Handled(Response(FALSE, EmptyMap, "Failed to restore backup: " \o r.err.msg),
                     <<"RestoreBackup">>, backupIndex, r.files, NoInfo)
        ELSE Handled(Response(TRUE, [backup_id |-> backupID, target_path |-> targetPath], ""),
                     <<"RestoreBackup">>, backupIndex, r.files, NoInfo)

handleValidateHosts(req) ==
    IF ValidateHosts # Nil
    THEN Handled(Response(FALSE, EmptyMap, "hosts file validation failed: "
                                           \o ValidateHosts.msg),
                 <<"ValidateHosts">>, backupIndex, files, NoInfo)
    ELSE Handled(Response(TRUE, [status |-> "valid"], ""),
                 <<"ValidateHosts">>, backupIndex, files, NoInfo)

\* handleGetStatus; the helper only answers requests while it runs
handleGetStatus(req) ==
    Handled(Response(TRUE, [running |-> TRUE, hosts_path |-> HostsPath], ""),
            <<"GetStatus">>, backupIndex, files, NoInfo)

\* AuditLogger.LogSuccessfulOperation and LogFailedOperation: the record written
LogSuccessfulOperation(operation, clientID) ==
    [type |-> "successful", operation |-> operation, client |-> clientID, error |-> ""]

\* a failure recorded as a success
LogFailedOperationAsSuccessful(operation, clientID, error) ==
    [type |-> "successful", operation |-> operation, client |-> clientID, error |-> ""]

LogFailedOperation(operation, clientID, error) ==
    [type |-> "failed", operation |-> operation, client |-> clientID, error |-> error]

\* the validation verdict v is an error and not nil, with a code as good as nil
RejectedWithCode(v) == v.code # ""

\* the validation verdict v is an error and not nil
Rejected(v) == v.msg # ""

\* the switch of handleXPCRequest on the operation
Dispatch(req) ==
    IF req.operation = "write_hosts" THEN handleWriteHosts(req)
    ELSE IF req.operation = "backup_hosts" THEN handleBackupHosts(req)
    ELSE IF req.operation = "restore_hosts" THEN handleRestoreHosts(req)
    ELSE IF req.operation = "validate_hosts" THEN handleValidateHosts(req)
    ELSE IF req.operation = "get_status" THEN handleGetStatus(req)
    ELSE Handled(Response(FALSE, EmptyMap, "Unknown operation: " \o req.operation),
                 <<>>, backupIndex, files, NoInfo)

\* handleXPCRequest: validation, then the handler of the operation, then the
\* audit record of the outcome
handleXPCRequest(req) ==
    \E v \in {ValidateRequest(req)} :
    \E h \in {IF Rejected(v)
               THEN Handled(Response(FALSE, EmptyMap,
                                     "Security validation failed: " \o v.msg),
                            <<>>, backupIndex, files, NoInfo)
               ELSE Dispatch(req)} :
    LET outcome == IF Rejected(v)
                   THEN LogFailedOperation(req.operation, req.client_id, v.msg)
                   ELSE IF h.resp.Success
                   THEN LogSuccessfulOperation(req.operation, req.client_id)
                   ELSE LogFailedOperation(req.operation, req.client_id, h.resp.Error)
    IN  /\ h.created # NoInfo => clock < MaxClock
        /\ blacklist' = v.blacklist
        /\ rateLimit' = v.rateLimit
        /\ History(req, v)
        /\ files' = h.files
        /\ modTime' = Stamp(h.files,
                            IF h.created # NoInfo THEN {h.created.Path}
                            ELSE IF h.calls = <<"RestoreBackup">> /\ h.resp.Success
                            THEN {h.resp.Data.target_path}
                            ELSE {})
        /\ backupIndex' = h.backupIndex
        /\ clock' = IF h.created # NoInfo THEN clock + 1 ELSE clock
        /\ origin' = Kept(IF h.created # NoInfo
                          THEN Put(origin, h.created.ID,
                                   [path |-> HostsPath, content |-> files[HostsPath],
                                    name |-> h.created.Name,
                                    second |-> clock \div TicksPerSecond,
                                    touched |-> FALSE])
                          ELSE origin, h.backupIndex)
        /\ last' = [kind |-> "handleXPCRequest", req |-> req, pre |-> Pre,
                    code |-> v.code, msg |-> v.msg, checks |-> v.checks,
                    calls |-> h.calls, resp |-> h.resp,
                    violations |-> v.violations,
                    audit |-> Append(v.audit, outcome),
                    before |-> files[HostsPath], paths |-> DOMAIN files]
        /\ UNCHANGED <<now, whitelist, proVars, extVars>>

\* the requests the client sends to the helper: at any time one request of each
\* operation and requests that fail a check, and before the first tick a
\* write_hosts and a restore_hosts request with each of the parameter maps
HelperRequests ==
    { Request("get_status", "c1", EmptyMap, now),
      Request("get_status", "c1", EmptyMap, now - StaleAge - 1),
      Request("validate_hosts", "c1", EmptyMap, now),
      Request("delete_all", "c1", EmptyMap, now),
      Request("write_hosts", "c1",
              [entries |-> [arr |-> <<Entry("192.168.1.10", "dev.example.com")>>]], now),
      Request("write_hosts", "c1",
              [entries |-> [arr |-> <<Entry("256.1.1.1", "dev.example.com")>>]], now),
      Request("backup_hosts", "c1", EmptyMap, now),
      Request("restore_hosts", "c1",
              [backup_path |-> [str |-> BackupDir \o "/old.backup"]], now),
      Request("restore_hosts", "c1", [backup_path |-> [str |-> HostsPath]], now),
      Request("restore_hosts", "c1", [backup_id |-> [str |-> "old"]], now) }
    \cup IF now = 0
         THEN { Request("write_hosts", "c1", params, now) : params \in WriteParams }
              \cup { Request("restore_hosts", "c1", params, now) : params \in RestoreParams }
         ELSE {}

Next ==
    \/ \E req \in HelperRequests : handleXPCRequest(req)
    \/ Tick
    \/ BackupTick

Spec == Init /\ [][Next]_vars

-----------------------------------------------------------------------------
(* Claims about the validator, checked under SpecSecurity *)

\* the last call was a ValidateRequest
Validated == last.kind = "ValidateRequest"

\* the request passes the structural check at instant t, in the words of the
\* specification: both names non-empty, the instant non-zero and in [t-5m, t+1m]
Structural(req, t) ==
    /\ req.client_id # ""
    /\ req.operation # ""
    /\ req.timestamp # ZeroTime
    /\ req.timestamp >= t - StaleAge
    /\ req.timestamp <= t + FutureSkew

\* client c had an unexpired blacklist entry when the call started
Banned(pre, c) == c \in DOMAIN pre.blacklist /\ pre.now < pre.blacklist[c]

\* the request reached the rate limiter of a client that is not whitelisted
ReachedLimiter ==
    /\ Validated
    /\ Structural(last.req, last.pre.now)
    /\ ~Banned(last.pre, last.req.client_id)
    /\ last.req.client_id \notin last.pre.whitelist

\* C2: of the structurally valid requests a non-whitelisted client gets to the
\* limiter inside one rolling window, the first MaxRequestsPerMinute are admitted
\* and the next one is rejected with RATE_LIMIT_EXCEEDED: a request is rejected
\* exactly when MaxRequestsPerMinute admissions lie in the window before it.
RateLimitAdmitsFirstN ==
    ReachedLimiter =>
        IF last.code = "RATE_LIMIT_EXCEEDED"
        THEN Len(admitted[last.req.client_id]) = MaxRequestsPerMinute
        ELSE Len(admitted[last.req.client_id]) \in 1..MaxRequestsPerMinute

\* a request was rejected as the one after MaxRequestsPerMinute admitted ones
RateLimitWitness ==
    /\ ReachedLimiter
    /\ last.code = "RATE_LIMIT_EXCEEDED"
    /\ Len(admitted[last.req.client_id]) = MaxRequestsPerMinute
    /\ \E i \in 1..MaxRequestsPerMinute :
          admitted[last.req.client_id][i] < last.pre.now

\* C3 as claimed: a non-whitelisted client denied by the limiter at t is on the
\* blacklist with expiry exactly t + BlacklistDuration until that instant, and
\* every structurally valid request it sends before it is rejected with
\* CLIENT_BLACKLISTED, the expiry staying what it was.
BlacklistedForDuration ==
    /\ \A c \in DOMAIN denied :
          c \in DOMAIN blacklist /\ blacklist[c] = denied[c].until
    /\ (/\ Validated
        /\ Structural(last.req, last.pre.now)
        /\ last.req.client_id \notin last.pre.whitelist
        /\ last.req.client_id \in DOMAIN last.pre.denied)
       => /\ last.code = "CLIENT_BLACKLISTED"
          /\ blacklist = last.pre.blacklist

\* C3 as amended: the same, unless ClearBlacklist was called since the denial.
BlacklistedUntilCleared ==
    /\ \A c \in DOMAIN denied :
          ~denied[c].cleared => c \in DOMAIN blacklist /\ blacklist[c] = denied[c].until
    /\ (/\ Validated
        /\ Structural(last.req, last.pre.now)
        /\ last.req.client_id \notin last.pre.whitelist
        /\ last.req.client_id \in DOMAIN last.pre.denied
        /\ ~last.pre.denied[last.req.client_id].cleared)
       => /\ last.code = "CLIENT_BLACKLISTED"
          /\ last.pre.now < last.pre.denied[last.req.client_id].until
          /\ blacklist = last.pre.blacklist

\* a request arriving at a later instant of the ban was rejected as blacklisted
BlacklistedWitness ==
    /\ Validated
    /\ Structural(last.req, last.pre.now)
    /\ last.req.client_id \notin last.pre.whitelist
    /\ last.req.client_id \in DOMAIN last.pre.denied
    /\ ~last.pre.denied[last.req.client_id].cleared
    /\ last.pre.now > last.pre.denied[last.req.client_id].until - BlacklistDuration
    /\ last.code = "CLIENT_BLACKLISTED"

\* the request is well-formed: structurally valid, an allowed operation, valid
\* parameters
WellFormed(req, t) ==
    /\ Structural(req, t)
    /\ req.operation \in AllowedOperations
    /\ validateParameters(req) = ""

\* C4: a well-formed request of a whitelisted client is accepted and is not
\* rejected as blacklisted, also while the client has an unexpired blacklist entry.
WhitelistOverridesBlacklist ==
    (/\ Validated
     /\ WellFormed(last.req, last.pre.now)
     /\ last.req.client_id \in last.pre.whitelist
     /\ Banned(last.pre, last.req.client_id))
    => last.msg = ""

\* C5: a whitelisted client is never denied by the rate limiter, never added to
\* the blacklist, and every well-formed request it sends is accepted.
WhitelistedAlwaysAccepted ==
    (/\ Validated
     /\ WellFormed(last.req, last.pre.now)
     /\ last.req.client_id \in last.pre.whitelist)
    => /\ last.code # "RATE_LIMIT_EXCEEDED"
       /\ DOMAIN blacklist \subseteq DOMAIN last.pre.blacklist
       /\ last.msg = ""

\* the checks in the order of the specification
CheckOrder == <<"basic", "blacklist", "rate_limit", "operation", "parameters">>

\* the limiter of client c holds MaxRequestsPerMinute instants inside the window
WindowFull(pre, c) ==
    /\ c \in DOMAIN pre.rateLimit
    /\ Cardinality({i \in 1..Len(pre.rateLimit[c]) :
                      pre.rateLimit[c][i] > pre.now - Window}) >= MaxRequestsPerMinute

\* the first check of CheckOrder that the request fails in the state the call
\* started in, 6 when it fails none
FirstFailing(req, pre) ==
    IF ~Structural(req, pre.now) THEN 1
    ELSE IF Banned(pre, req.client_id) THEN 2
    ELSE IF req.client_id \notin pre.whitelist /\ WindowFull(pre, req.client_id) THEN 3
    ELSE IF req.operation \notin AllowedOperations THEN 4
    ELSE IF validateParameters(req) # "" THEN 5
    ELSE 6

\* the check a rejection names, 6 for an accepted request
Rejecting ==
    IF last.msg = "" THEN 6
    ELSE IF last.code = "CLIENT_BLACKLISTED" THEN 2
    ELSE IF last.code = "RATE_LIMIT_EXCEEDED" THEN 3
    ELSE IF last.code = "OPERATION_NOT_ALLOWED" THEN 4
    ELSE IF HasPrefix(last.msg, "basic validation failed") THEN 1
    ELSE 5

\* C6: the checks run in the order structural, blacklist, rate limit, allow-list,
\* parameters and stop at the first failing one: the rejection is that of the
\* earliest failing check, no later check is evaluated, and a structurally invalid
\* or blacklisted request leaves the limiter windows and the blacklist unchanged.
\* (The request of a whitelisted client with an unexpired blacklist entry is
\* left to C4.)
ChecksInOrder ==
    (/\ Validated
     /\ ~(/\ Banned(last.pre, last.req.client_id)
          /\ last.req.client_id \in last.pre.whitelist)) =>
        LET k == FirstFailing(last.req, last.pre)
        IN  /\ Rejecting = k
            /\ last.checks = SubSeq(CheckOrder, 1, IF k = 6 THEN 5 ELSE k)
            /\ k \in {1, 2} => /\ rateLimit = last.pre.rateLimit
                               /\ blacklist = last.pre.blacklist

\* a blacklisted client's request that would also fail the later checks was
\* rejected as blacklisted
ChecksInOrderWitness ==
    /\ Validated
    /\ last.req.client_id \notin last.pre.whitelist
    /\ FirstFailing(last.req, last.pre) = 2
    /\ last.req.operation \notin AllowedOperations
    /\ last.code = "CLIENT_BLACKLISTED"

\* the rejection names the request's instant
TimestampRejection ==
    last.msg \in { "basic validation failed: timestamp is zero",
                   "basic validation failed: request timestamp too old",
                   "basic validation failed: request timestamp too new" }

\* C7: a request whose instant is before now - 5m or after now + 1m is rejected,
\* whatever its other fields and for whitelisted clients too, and a non-zero
\* instant inside [now - 5m, now + 1m] is never the reason of a rejection.
TimestampWindow ==
    Validated =>
        /\ (\/ last.req.timestamp < last.pre.now - StaleAge
            \/ last.req.timestamp > last.pre.now + FutureSkew)
           => last.msg # "" /\ rateLimit = last.pre.rateLimit
        /\ (/\ last.req.timestamp # ZeroTime
            /\ last.req.timestamp >= last.pre.now - StaleAge
            /\ last.req.timestamp <= last.pre.now + FutureSkew)
           => ~TimestampRejection

\* a whitelisted client's request one tick too new was rejected, its other fields
\* being well-formed
TimestampWitness ==
    /\ Validated
    /\ last.req.client_id \in last.pre.whitelist
    /\ last.req.operation = "get_status"
    /\ last.req.timestamp = last.pre.now + FutureSkew + 1
    /\ last.msg = "basic validation failed: request timestamp too new"

\* C13: a ValidateRequest call that rejects a request writes, before it returns,
\* exactly one security violation entry and exactly one audit record, a
\* failed-operation record, both naming the client and the operation of the
\* request, whichever check failed; a call that accepts a request writes neither.
RejectionLogged ==
    Validated =>
        IF last.msg # ""
        THEN /\ Len(last.violations) = 1
             /\ last.violations[1].client = last.req.client_id
             /\ last.violations[1].operation = last.req.operation
             /\ Len(last.audit) = 1
             /\ last.audit[1].type = "failed"
             /\ last.audit[1].client = last.req.client_id
             /\ last.audit[1].operation = last.req.operation
        ELSE last.violations = <<>> /\ last.audit = <<>>

\* a request turned away by the rate limiter left one violation entry and one
\* failed-operation record
RejectionLoggedWitness ==
    /\ Validated
    /\ last.code = "RATE_LIMIT_EXCEEDED"
    /\ Len(last.violations) = 1
    /\ last.violations[1].violation = "rate_limit"
    /\ last.audit = << LogFailedOperation(last.req.operation, last.req.client_id,
                                          "rate_limit: Rate limit exceeded") >>

-----------------------------------------------------------------------------
(* Claims about the backup manager, checked under SpecBackup *)

\* the bytes of the file of backup id were changed after CreateBackup made it
Changed(id) == id \in DOMAIN origin /\ origin[id].touched

\* backup id was made by CreateBackup and its file was not changed since
Unchanged(id) == id \in DOMAIN origin /\ ~origin[id].touched

\* the error is the checksum mismatch of ValidateBackup or of RestoreBackup
ChecksumMismatch(err) == err.msg = "backup file corrupted: checksum mismatch"

\* C8 as claimed: once the bytes of a backup file were changed after
\* CreateBackup, ValidateBackup and RestoreBackup of that backup both fail with a
\* checksum-mismatch error, and RestoreBackup changes no file.
CorruptionIsChecksumMismatch ==
    [][ (/\ last'.kind \in {"ValidateBackup", "RestoreBackup"}
         /\ Changed(last'.id))
        => /\ ChecksumMismatch(last'.err)
           /\ files' = files ]_vars

\* C8 as amended: once the bytes of a backup file were changed after
\* CreateBackup, RestoreBackup fails with BACKUP_CORRUPTED, a checksum mismatch,
\* and changes no file; ValidateBackup fails with a size-mismatch error when the
\* length of the file changed and with a checksum-mismatch error when it did not.
CorruptionDetected ==
    [][ (/\ last'.kind \in {"ValidateBackup", "RestoreBackup"}
         /\ Changed(last'.id))
        => /\ last'.kind = "RestoreBackup"
              => /\ last'.err.code = "BACKUP_CORRUPTED"
                 /\ ChecksumMismatch(last'.err)
           /\ last'.kind = "ValidateBackup"
              => IF Len(files[backupIndex[last'.id].Path]) # Len(origin[last'.id].content)
                 THEN HasPrefix(last'.err.msg, "backup file size mismatch: expected ")
                 ELSE ChecksumMismatch(last'.err)
           /\ files' = files ]_vars

\* RestoreBackup onto the existing hosts file refused a backup whose file was
\* changed, and the hosts file holds what it held before
CorruptionWitness ==
    /\ last.kind = "RestoreBackup"
    /\ Changed(last.id)
    /\ last.target = HostsPath
    /\ last.err.code = "BACKUP_CORRUPTED"
    /\ files[HostsPath] = last.before
    /\ files[HostsPath] # origin[last.id].content

\* C9: round trip.  ValidateBackup called right after a successful CreateBackup
\* on the id it returned succeeds, and RestoreBackup of that backup onto the
\* source path succeeds and leaves there the bytes the source had when the backup
\* was created, whatever the source was given in between (the backup file not
\* having been changed from outside).
RoundTrip ==
    [][ /\ (/\ last'.kind = "ValidateBackup"
            /\ last.kind = "CreateBackup"
            /\ last.err = Nil
            /\ last'.id = last.id
            /\ Unchanged(last.id))
           => last'.err = Nil
        /\ (/\ last'.kind = "RestoreBackup"
            /\ Unchanged(last'.id)
            /\ last'.target = origin[last'.id].path)
           => /\ last'.err = Nil
              /\ files'[last'.target] = origin[last'.id].content ]_vars

\* RestoreBackup brought back the bytes of the source that had been replaced
\* since the backup was created
RoundTripWitness ==
    /\ last.kind = "RestoreBackup"
    /\ last.err = Nil
    /\ Unchanged(last.id)
    /\ last.target = origin[last.id].path
    /\ last.before # origin[last.id].content
    /\ files[last.target] = origin[last.id].content

\* the k entries of index idx that were created last
MostRecent(idx, k) ==
    CHOOSE S \in SUBSET DOMAIN idx :
        /\ Cardinality(S) = k
        /\ \A s \in S, o \in DOMAIN idx \ S : idx[s].CreatedAt > idx[o].CreatedAt

\* C11: retention.  When CreateBackup creates a backup while the index already
\* holds MaxBackups entries or more, ListBackups afterwards returns exactly
\* MaxBackups entries, from the newest to the oldest, and they are the MaxBackups
\* most recently created ones among the entries held before and the new one,
\* whether they are manual, automatic or tagged.
Retention ==
    [][ (/\ last'.kind = "CreateBackup"
         /\ last'.created
         /\ Cardinality(DOMAIN backupIndex) >= MaxBackups)
        => \A l \in ListBackups(backupIndex') :
              LET all == [id \in DOMAIN backupIndex \cup {last'.id} |->
                            IF id = last'.id THEN backupIndex'[id] ELSE backupIndex[id]]
              IN  /\ last'.id \in DOMAIN backupIndex'
                  /\ Len(l) = MaxBackups
                  /\ {l[i].ID : i \in 1..Len(l)} = MostRecent(all, MaxBackups)
                  /\ \A i \in 1..Len(l) : l[i] = all[l[i].ID]
                  /\ \A i \in 1..Len(l) - 1 : l[i].CreatedAt > l[i + 1].CreatedAt ]_vars

\* more than MaxBackups backups were created one after the other: the last
\* CreateBackup removed a manual, tagged backup that an earlier CreateBackup had
\* made, and left MaxBackups entries, none of them loaded at startup
RetentionWitness ==
    /\ last.kind = "CreateBackup"
    /\ last.created
    /\ \E id \in last.evicted : HasPrefix(id, "hosts-20250101")
    /\ Cardinality(DOMAIN backupIndex) = MaxBackups
    /\ DOMAIN backupIndex \subseteq DOMAIN origin
    /\ \E id \in DOMAIN backupIndex : backupIndex[id].Automatic

\* C12: idempotent create.  A CreateBackup call with the source path and the name
\* of an earlier CreateBackup call whose backup is still in the index, made within
\* the same second, returns the id the earlier call returned and no error, creates
\* no backup file and leaves the index and every file, the existing backup file
\* among them, as they were.
IdempotentCreate ==
    [][ \A id \in DOMAIN origin :
          (/\ last'.kind = "CreateBackup"
           /\ last'.target = origin[id].path
           /\ last'.name = origin[id].name
           /\ clock \div TicksPerSecond = origin[id].second)
          => /\ last'.id = id
             /\ last'.err = Nil
             /\ ~last'.created
             /\ backupIndex' = backupIndex
             /\ files' = files ]_vars

\* the second CreateBackup of the hosts file within one second returned the
\* backup of the first, although the hosts file had been rewritten in between
IdempotentCreateWitness ==
    /\ last.kind = "CreateBackup"
    /\ last.err = Nil
    /\ ~last.created
    /\ last.id \in DOMAIN origin
    /\ last.target = origin[last.id].path
    /\ last.name = origin[last.id].name
    /\ clock \div TicksPerSecond = origin[last.id].second
    /\ files[last.target] # origin[last.id].content
    /\ files[backupIndex[last.id].Path] = origin[last.id].content

-----------------------------------------------------------------------------
(* Claims about the dispatcher, checked under Spec *)

\* the last call was a handleXPCRequest
Served == last.kind = "handleXPCRequest"

\* C1: handleXPCRequest performs an operation handler only for a request on which
\* ValidateRequest returned no error; a request that validation rejects gets no
\* handler, changes no file and is answered with success = false.
HandlersOnlyAfterValidation ==
    Served =>
        /\ last.calls # <<>> => last.msg = ""
        /\ last.msg # "" => /\ last.calls = <<>>
                            /\ ~last.resp.Success
                            /\ files[HostsPath] = last.before

\* a write_hosts request rejected by validation was answered with a failure and
\* no handler ran
RejectedWitness ==
    /\ Served
    /\ last.req.operation = "write_hosts"
    /\ last.msg # ""
    /\ last.calls = <<>>
    /\ ~last.resp.Success

OutcomeAudited ==
    Served =>
        /\ Len(last.audit) = Len(last.violations) + 1
        /\ LET outcome == last.audit[Len(last.audit)]
           IN  /\ outcome.operation = last.req.operation
               /\ outcome.client = last.req.client_id
               /\ last.resp.Success => outcome.type = "successful"
               /\ ~last.resp.Success
                     => /\ outcome.type = "failed"
                        /\ outcome.error = IF last.msg # "" THEN last.msg
                                            ELSE last.resp.Error

\* a restore_hosts request that passed validation and failed in RestoreBackup was
\* answered with a failure, and the failure is the one record in the audit log
OutcomeAuditedWitness ==
    /\ Served
    /\ last.calls = <<"RestoreBackup">>
    /\ ~last.resp.Success
    /\ last.audit = << [type |-> "failed", operation |-> "restore_hosts",
                        client |-> last.req.client_id, error |-> last.resp.Error] >>

\* the request got as far as check number n of ValidateRequest
Reached(n) == Len(last.checks) >= n

\* C15 as claimed: a request whose operation is not a member of AllowedOperations
\* is rejected by ValidateRequest with OPERATION_NOT_ALLOWED and is not
\* dispatched.
DisallowedOperationCode ==
    (Served /\ last.req.operation \notin AllowedOperations)
    => /\ last.code = "OPERATION_NOT_ALLOWED"
       /\ last.calls = <<>>

\* C15 as amended: a request whose operation is not a member of AllowedOperations
\* is always rejected by ValidateRequest and never dispatched; the rejection is
\* OPERATION_NOT_ALLOWED when the request passes the checks made before the
\* allow-list (the basic check, the blacklist and the rate limit), and the error
\* of the first of those checks that fails otherwise.
DisallowedOperationRejected ==
    (Served /\ last.req.operation \notin AllowedOperations)
    => /\ last.msg # ""
       /\ last.calls = <<>>
       /\ ~last.resp.Success
       /\ Len(last.checks) <= 4
       /\ Reached(4) <=> last.code = "OPERATION_NOT_ALLOWED"
       /\ Reached(4) => last.msg = "operation not allowed: " \o last.req.operation

\* a well-formed delete_all request of a client within its limits was rejected
\* with OPERATION_NOT_ALLOWED and nothing was dispatched
DisallowedOperationWitness ==
    /\ Served
    /\ last.req.operation = "delete_all"
    /\ last.code = "OPERATION_NOT_ALLOWED"
    /\ last.calls = <<>>
    /\ ~last.resp.Success

\* the last request is a write_hosts request whose entries are an array
WriteServed ==
    /\ Served
    /\ last.req.operation = "write_hosts"
    /\ "entries" \in DOMAIN last.req.parameters
    /\ "arr" \in DOMAIN last.req.parameters["entries"]

\* the entries array of the last request
EntriesServed == last.req.parameters["entries"].arr

\* element e of an entries array fails validation: it is no mapping, its ip or
\* its hostname is missing, no string or empty, its IP or its hostname is
\* invalid, or its comment is longer than 200 characters
ElementFails(e) ==
    IF "map" \notin DOMAIN e THEN TRUE
    ELSE IF ~IsStr(e.map, "ip") \/ ~IsStr(e.map, "hostname") THEN TRUE
    ELSE \/ e.map["ip"].str = ""
         \/ e.map["hostname"].str = ""
         \/ validateIPAddress(e.map["ip"].str) # ""
         \/ validateHostname(e.map["hostname"].str) # ""
         \/ IsStr(e.map, "comment") /\ Len(e.map["comment"].str) > 200

\* the index, counted from 0, of the first element of the array that fails
FirstFailingElement(es) ==
    (CHOOSE k \in 1..Len(es) :
        /\ ElementFails(es[k])
        /\ \A j \in 1..(k - 1) : ~ElementFails(es[j])) - 1

\* C16: a write_hosts request whose entries array is longer than MaxHostEntries
\* or holds an element that fails validation is rejected as a whole:
\* HostsHandler.WriteHosts is not invoked, the hosts file is left as it was and
\* the response is a failure.  When the request gets to the parameter check, the
\* error names the excess of entries, or else the first failing element.
WriteHostsAllOrNothing ==
    (/\ WriteServed
     /\ \/ Len(EntriesServed) > MaxHostEntries
        \/ \E i \in 1..Len(EntriesServed) : ElementFails(EntriesServed[i]))
    => /\ last.msg # ""
       /\ ~last.resp.Success
       /\ last.calls = <<>>
       /\ files[HostsPath] = last.before
       /\ Reached(5)
            => IF Len(EntriesServed) > MaxHostEntries
               THEN HasPrefix(last.msg,
                              "parameter validation failed: too many host entries: ")
               ELSE HasPrefix(last.msg,
                              "parameter validation failed: entry "
                              \o ToString(FirstFailingElement(EntriesServed)) \o " ")

\* a write_hosts request with a good entry followed by one with an invalid IP
\* was rejected at the second entry, entry 1, and WriteHosts was not invoked
WriteHostsWitness ==
    /\ WriteServed
    /\ Len(EntriesServed) = 2
    /\ ~ElementFails(EntriesServed[1])
    /\ ElementFails(EntriesServed[2])
    /\ last.msg = "parameter validation failed: entry 1 validation failed: "
                  \o "invalid IP address: invalid IP format"
    /\ last.calls = <<>>

\* the string does not parse as an IPv4 or IPv6 address, or parses to a
\* multicast or to an unspecified address
RefusedIP(ip) ==
    \/ ParseIP(ip) = NilIP
    \/ IsMulticast(ParseIP(ip))
    \/ IsUnspecified(ParseIP(ip))

\* the elements of the array that are mappings with a string ip
WithIP(es) == {i \in 1..Len(es) : "map" \in DOMAIN es[i] /\ IsStr(es[i].map, "ip")}

\* C17: a write_hosts request with an entry whose IP string fails IPv4/IPv6
\* parsing, or parses to a multicast or unspecified address, is rejected by
\* validation and not dispatched; when that entry is the only one and the request
\* gets to the parameter check, the error is the one of the IP address.
BadIPRejected ==
    (/\ WriteServed
     /\ \E i \in WithIP(EntriesServed) : RefusedIP(EntriesServed[i].map["ip"].str))
    => /\ last.msg # ""
       /\ last.calls = <<>>
       /\ ~last.resp.Success
       /\ (/\ Reached(5)
           /\ Len(EntriesServed) = 1
           /\ EntriesServed[1].map["ip"].str # ""
           /\ IsStr(EntriesServed[1].map, "hostname")
           /\ EntriesServed[1].map["hostname"].str # "")
          => HasPrefix(last.msg, "parameter validation failed: entry 0 validation "
                                 \o "failed: invalid IP address: ")

\* a write_hosts request for the unspecified address 0.0.0.0 got to the parameter
\* check and was rejected there for its IP
BadIPWitness ==
    /\ WriteServed
    /\ Len(EntriesServed) = 1
    /\ EntriesServed[1] = Entry("0.0.0.0", "dev.example.com")
    /\ last.msg = "parameter validation failed: entry 0 validation failed: "
                  \o "invalid IP address: dangerous IP address not allowed"
    /\ last.calls = <<>>

\* the hostname holds localhost, 127.0.0.1 or 0.0.0.0, in whatever case, or
\* matches *.local
DangerousName(hostname) ==
    \/ Contains(ToLower(hostname), "localhost")
    \/ Contains(hostname, "127.0.0.1")
    \/ Contains(hostname, "0.0.0.0")
    \/ HasSuffix(ToLower(hostname), ".local")

\* the elements of the array that are mappings with a string hostname
WithHostname(es) ==
    {i \in 1..Len(es) : "map" \in DOMAIN es[i] /\ IsStr(es[i].map, "hostname")}

\* C18: a write_hosts request with an entry whose hostname holds localhost,
\* 127.0.0.1 or 0.0.0.0 (in whatever case) or matches *.local is rejected by
\* validation and not dispatched; when the hostname is otherwise syntactically
\* valid, the entry is the only one, its IP is good and the request gets to the
\* parameter check, it is rejected as dangerous.
DangerousHostnameRejected ==
    (/\ WriteServed
     /\ \E i \in WithHostname(EntriesServed) :
           DangerousName(EntriesServed[i].map["hostname"].str))
    => /\ last.msg # ""
       /\ last.calls = <<>>
       /\ (/\ Reached(5)
           /\ EntriesServed = <<Entry("192.168.1.10",
                                      EntriesServed[1].map["hostname"].str)>>
           /\ hostnameRegex(EntriesServed[1].map["hostname"].str))
          => last.msg = "parameter validation failed: entry 0 validation failed: "
                        \o "invalid hostname: dangerous hostname not allowed"

\* the last request is a restore_hosts request
RestoreServed == Served /\ last.req.operation = "restore_hosts"

\* C19: a restore_hosts request that gets to the parameter check and whose
\* parameters hold backup_id, the id of a backup in the index, and no backup_path
\* passes validation and is dispatched to RestoreBackup with that id.
RestoreByIdAlone ==
    (/\ RestoreServed
     /\ Reached(5)
     /\ IsStr(last.req.parameters, "backup_id")
     /\ last.req.parameters["backup_id"].str \in DOMAIN backupIndex
     /\ "backup_path" \notin DOMAIN last.req.parameters)
    => /\ last.msg = ""
       /\ last.calls = <<"RestoreBackup">>

\* the last request is a restore_hosts request that got to the parameter check
\* with a string as its backup_path
PathServed ==
    /\ RestoreServed
    /\ Reached(5)
    /\ IsStr(last.req.parameters, "backup_path")

\* the backup_path of the last request
BackupPathServed == last.req.parameters["backup_path"].str

\* one of the segments of the path is ".."
HasTraversalSegment(path) ==
    \E i \in 1..Len(Split(path, "/")) : Split(path, "/")[i] = ".."

\* C20 as claimed: the backup path of a restore_hosts request passes validation
\* exactly when it is absolute, has no ".." segment and names a file that exists
\* when the request is handled; a request whose path is rejected is not
\* dispatched.
FilePathBySegments ==
    PathServed =>
        /\ last.msg = "" <=> /\ HasPrefix(BackupPathServed, "/")
                             /\ ~HasTraversalSegment(BackupPathServed)
                             /\ BackupPathServed \in last.paths
        /\ last.msg # "" => last.calls = <<>>

\* C20 as amended: the backup path of a restore_hosts request passes validation
\* exactly when it is absolute, holds no two dots in a row anywhere, be it a
\* ".." segment or part of a name, and names a file that exists when the request
\* is handled.  A path failing one of the three is rejected for the first it
\* fails, the dots, then the absolute path, then the file, and the request is
\* not dispatched; a request whose path passes is dispatched to RestoreBackup.
FilePathByDots ==
    PathServed =>
        /\ last.msg = "" <=> /\ HasPrefix(BackupPathServed, "/")
                             /\ ~Contains(BackupPathServed, "..")
                             /\ BackupPathServed \in last.paths
        /\ last.msg # "" =>
              /\ last.calls = <<>>
              /\ ~last.resp.Success
              /\ last.msg = "parameter validation failed: invalid backup path: " \o
                    (IF Contains(BackupPathServed, "..") THEN "path traversal not allowed"
                     ELSE IF ~HasPrefix(BackupPathServed, "/")
                     THEN "only absolute paths allowed"
                     ELSE "file does not exist")
        /\ last.msg = "" => last.calls = <<"RestoreBackup">>

\* the path of an existing file, absolute and without a ".." segment, was
\* rejected as a traversal for the two dots in its name, and nothing was
\* dispatched
FilePathWitness ==
    /\ PathServed
    /\ HasPrefix(BackupPathServed, "/")
    /\ ~HasTraversalSegment(BackupPathServed)
    /\ BackupPathServed \in last.paths
    /\ last.msg = "parameter validation failed: invalid backup path: "
                  \o "path traversal not allowed"
    /\ last.calls = <<>>

-----------------------------------------------------------------------------
(* Further claims about the validator, checked under SpecSecurity *)

\* the call got to the blacklist check with an entry of its client whose expiry
\* instant had come
ExpiredEntry ==
    /\ Validated
    /\ Len(last.checks) >= 2
    /\ last.req.client_id \in DOMAIN last.pre.blacklist
    /\ last.pre.now >= last.pre.blacklist[last.req.client_id]

\* C21: a blacklist entry is effective only while now < expiry.  A ValidateRequest
\* call that gets to the blacklist check at or after the expiry instant of the
\* entry of its client removes the entry during the check and does not reject the
\* request as blacklisted; the entry is back afterwards only when the rate limiter
\* denies that same request, with a new expiry.  A well-formed request of a client
\* that is not whitelisted and sent nothing the limiter recorded for
\* BlacklistDuration is accepted; before the expiry instant its requests are
\* rejected as blacklisted.
LazyEviction ==
    /\ ExpiredEntry
       => /\ last.code # "CLIENT_BLACKLISTED"
          /\ IF last.code = "RATE_LIMIT_EXCEEDED"
             THEN blacklist[last.req.client_id] = last.pre.now + BlacklistDuration
             ELSE last.req.client_id \notin DOMAIN blacklist
          /\ (/\ WellFormed(last.req, last.pre.now)
              /\ last.req.client_id \notin last.pre.whitelist
              /\ last.req.client_id \in DOMAIN last.pre.rateLimit
              /\ \A i \in 1..Len(last.pre.rateLimit[last.req.client_id]) :
                    last.pre.rateLimit[last.req.client_id][i]
                        <= last.pre.now - BlacklistDuration)
             => last.msg = ""
    /\ (/\ Validated
        /\ Len(last.checks) >= 2
        /\ last.req.client_id \notin last.pre.whitelist
        /\ Banned(last.pre, last.req.client_id))
       => last.code = "CLIENT_BLACKLISTED"

\* a client denied by the rate limiter waited until the expiry instant of its
\* ban; its next request was accepted and its entry is gone
LazyEvictionWitness ==
    /\ ExpiredEntry
    /\ last.req.client_id \notin last.pre.whitelist
    /\ last.pre.now = last.pre.blacklist[last.req.client_id]
    /\ last.msg = ""
    /\ last.req.client_id \notin DOMAIN blacklist

\* the instants the limiter of the client of the last call held when the call
\* started
RecordedBefore ==
    IF last.req.client_id \in DOMAIN last.pre.rateLimit
    THEN last.pre.rateLimit[last.req.client_id]
    ELSE <<>>

\* those of them that are inside the window at the instant of the call
StillInside ==
    SelectSeq(RecordedBefore, LAMBDA t : t > last.pre.now - Window)

\* C22: after every RateLimiter.Allow call the recorded sequence of the client
\* holds no instant older than now - window (nor the instant now - window
\* itself) and at most maxReqs instants.  An allowed call leaves the previously
\* recorded instants that are still inside the window followed by the current
\* instant; a denied call leaves exactly those previously recorded instants and
\* records nothing.  No limiter ever holds more than maxReqs instants.
LimiterWindow ==
    /\ \A c \in DOMAIN rateLimit : Len(rateLimit[c]) <= MaxRequestsPerMinute
    /\ ReachedLimiter
       => LET after == rateLimit[last.req.client_id]
          IN  /\ \A i \in 1..Len(after) : after[i] > last.pre.now - Window
              /\ Len(after) <= MaxRequestsPerMinute
              /\ IF last.code = "RATE_LIMIT_EXCEEDED"
                 THEN after = StillInside
                 ELSE after = Append(StillInside, last.pre.now)

\* an allowed call dropped the instants recorded a whole window earlier and
\* recorded its own
LimiterWindowWitness ==
    /\ ReachedLimiter
    /\ last.code # "RATE_LIMIT_EXCEEDED"
    /\ \E i \in 1..Len(RecordedBefore) : RecordedBefore[i] = last.pre.now - Window
    /\ rateLimit[last.req.client_id] = <<last.pre.now>>

-----------------------------------------------------------------------------
(* Claims about the backup manager and its directory, checked under SpecRestart *)

\* every entry of the index names an existing file of the recorded size
IndexMatchesFiles ==
    \A id \in DOMAIN backupIndex :
        /\ Exists(backupIndex[id].Path)
        /\ Len(files[backupIndex[id].Path]) = backupIndex[id].Size

\* C23: in every state reached through CreateBackup, DeleteBackup,
\* CleanupOldBackups and RestoreBackup, the path of every entry of the index
\* names an existing backup file whose size is the recorded size: the state
\* after construction is such a state, and each of the four calls, made in such
\* a state, leaves such a state.
IndexMatchesFilesKept ==
    /\ Init => IndexMatchesFiles
    /\ [][ (/\ last'.kind \in {"CreateBackup", "DeleteBackup", "CleanupOldBackups",
                               "RestoreBackup"}
            /\ IndexMatchesFiles)
           => IndexMatchesFiles' ]_vars

\* C24: RestoreBackup fails with BACKUP_NOT_FOUND when the id is not in the
\* index, and with FILE_NOT_FOUND when the id is in the index and the file of the
\* backup is missing; either way the call ends there: no file, the one at the
\* target path included, and no entry of the index is changed by it.
RestoreNotFound ==
    [][ (/\ last'.kind = "RestoreBackup"
         /\ \/ last'.id \notin DOMAIN backupIndex
            \/ ~Exists(backupIndex[last'.id].Path))
        => /\ last'.err.code = IF last'.id \notin DOMAIN backupIndex
                               THEN "BACKUP_NOT_FOUND" ELSE "FILE_NOT_FOUND"
           /\ files' = files
           /\ modTime' = modTime
           /\ backupIndex' = backupIndex ]_vars

\* RestoreBackup of an indexed backup whose file is gone, onto an existing file,
\* failed with FILE_NOT_FOUND and the target holds what it held
RestoreNotFoundWitness ==
    /\ last.kind = "RestoreBackup"
    /\ last.id \in DOMAIN backupIndex
    /\ ~Exists(backupIndex[last.id].Path)
    /\ last.err.code = "FILE_NOT_FOUND"
    /\ Exists(last.target)
    /\ files[last.target] = last.before

\* the file of indexed backup id exists and has the recorded checksum
Intact(id) ==
    /\ Exists(backupIndex[id].Path)
    /\ md5Hex(files[backupIndex[id].Path]) = backupIndex[id].Checksum

\* C25: for every backup of the index whose file is intact, made by CreateBackup
\* in this process lifetime or found by the scan of the backup directory at
\* startup, RestoreBackup with an empty target path succeeds, and it leaves the
\* bytes of the backup at the path the backup was taken from.
RestoreToOriginalPath ==
    [][ (/\ last'.kind = "RestoreBackup"
         /\ last'.target = ""
         /\ last'.id \in DOMAIN backupIndex
         /\ Intact(last'.id))
        => /\ last'.err = Nil
           /\ last'.id \in DOMAIN origin
              => /\ origin[last'.id].path \in DOMAIN files'
                 /\ files'[origin[last'.id].path] = files[backupIndex[last'.id].Path]
       ]_vars

\* C26: DeleteBackup of an id of the index returns nil and removes the entry and
\* the file of the backup, also when the file is gone already; every other entry
\* and every other file is left as it was, and right after it GetBackup,
\* ValidateBackup and RestoreBackup of that id report that the backup is not
\* found.  DeleteBackup of an id that is not in the index returns an error and
\* changes neither the index nor a file.
DeleteRemovesBoth ==
    /\ [][ last'.kind = "DeleteBackup"
           => IF last'.id \in DOMAIN backupIndex
              THEN /\ last'.err = Nil
                   /\ DOMAIN backupIndex' = DOMAIN backupIndex \ {last'.id}
                   /\ \A o \in DOMAIN backupIndex' : backupIndex'[o] = backupIndex[o]
                   /\ DOMAIN files' = DOMAIN files \ {backupIndex[last'.id].Path}
                   /\ \A q \in DOMAIN files' : files'[q] = files[q]
              ELSE /\ last'.err.msg = "backup not found: " \o last'.id
                   /\ backupIndex' = backupIndex
                   /\ files' = files ]_vars
    /\ [](last.kind = "DeleteBackup" /\ last.err = Nil
            => /\ GetBackup(last.id).info = NoInfo
               /\ GetBackup(last.id).err.msg = "backup not found: " \o last.id
               /\ ValidateBackup(last.id).msg = "backup not found: " \o last.id
               /\ \A t \in DirectoryTargets :
                      RestoreBackup(last.id, t).err.code = "BACKUP_NOT_FOUND")

\* DeleteBackup of a backup whose file another process had removed returned nil,
\* the entry is gone and the index still holds another backup with its file
DeleteRemovesBothWitness ==
    /\ last.kind = "DeleteBackup"
    /\ last.err = Nil
    /\ ~last.removed
    /\ last.id \notin DOMAIN backupIndex
    /\ \E o \in DOMAIN backupIndex : Exists(backupIndex[o].Path)

\* C27: ValidateBackup of an id of the index returns nil exactly when the file of
\* the backup exists, has the recorded size and has the recorded checksum; when
\* the size or the checksum differs, the error carries the recorded value and the
\* value found; and the call changes neither the index nor a file.
ValidateReportsBoth ==
    [][ (last'.kind = "ValidateBackup" /\ last'.id \in DOMAIN backupIndex)
        => LET info == backupIndex[last'.id]
               found == Exists(info.Path)
               size == Len(files[info.Path])
               sum == md5Hex(files[info.Path])
           IN  /\ last'.err = Nil
                     <=> (found /\ size = info.Size /\ sum = info.Checksum)
               /\ (found /\ size # info.Size)
                     => /\ Contains(last'.err.msg, ToString(info.Size))
                        /\ Contains(last'.err.msg, ToString(size))
               /\ (found /\ size = info.Size /\ sum # info.Checksum)
                     => /\ Contains(last'.err.msg, info.Checksum)
                        /\ Contains(last'.err.msg, sum)
               /\ files' = files
               /\ backupIndex' = backupIndex ]_vars

\* C28: the checksum recorded for a backup id is computed when the backup is
\* created and is never computed again for the index: no call and no restart
\* changes the checksum of an id that stays in the index; ValidateBackup and
\* RestoreBackup compute a checksum to compare and leave the index as it is.
ChecksumComputedOnce ==
    [][ /\ \A id \in DOMAIN backupIndex \cap DOMAIN backupIndex' :
              backupIndex'[id].Checksum = backupIndex[id].Checksum
        /\ last'.kind \in {"ValidateBackup", "RestoreBackup"}
              => backupIndex' = backupIndex ]_vars

-----------------------------------------------------------------------------
(* Claims about the profile manager, checked under SpecProfile *)

\* the stored profiles that have IsActive = true
ActiveProfiles == {id \in DOMAIN profiles : profiles[id].IsActive}

\* C29: after any sequence of calls of the profile manager at most one stored
\* profile has IsActive = true, and when one has, it is the profile of the
\* manager's active id, the one GetActiveProfile returns; a successful
\* ActivateProfile(id) leaves id the active profile.
SingleActiveProfile ==
    /\ Cardinality(ActiveProfiles) <= 1
    /\ ActiveProfiles # {}
          => /\ ActiveProfiles = {activeID}
             /\ GetActiveProfile.err = ""
             /\ GetActiveProfile.profile.ID = activeID
    /\ (last.kind = "ActivateProfile" /\ last.err = "")
          => /\ activeID = last.id
             /\ ActiveProfiles = {last.id}

\* C30: DeleteProfile of the profile of the active id fails with
\* ErrActiveProfile, and DeleteProfile of an id the manager does not have fails
\* with ErrProfileNotFound; either way the profiles and the active id stay as
\* they are.  So the active id, once set, always names a stored profile, and
\* GetActiveProfile succeeds.
ActiveProfileKept ==
    /\ [][ last'.kind = "DeleteProfile"
           => /\ (last'.id \in DOMAIN profiles /\ last'.id = activeID)
                    => /\ last'.err = ErrActiveProfile
                       /\ profiles' = profiles
                       /\ activeID' = activeID
              /\ last'.id \notin DOMAIN profiles
                    => /\ last'.err = ErrProfileNotFound
                       /\ profiles' = profiles
                       /\ activeID' = activeID ]_vars
    /\ [](activeID # ""
            => /\ activeID \in DOMAIN profiles
               /\ GetActiveProfile.err = "")

\* C31: CreateProfile makes the new profile the active one exactly when the
\* store held no profile before the call; a CreateProfile on a store that holds
\* profiles yields an inactive profile and leaves the active id and every stored
\* profile as they were; CreateProfile with the name of a stored profile fails
\* with ErrProfileExists and leaves the store and profiles.json as they were.
CreateActivatesFirst ==
    [][ last'.kind = "CreateProfile"
          => /\ (\E id \in DOMAIN profiles : profiles[id].Name = last'.name)
                   => /\ last'.err = ErrProfileExists
                      /\ profiles' = profiles
                      /\ activeID' = activeID
                      /\ profileFile' = profileFile
             /\ last'.err = ""
                   => /\ last'.id \notin DOMAIN profiles
                      /\ DOMAIN profiles' = DOMAIN profiles \cup {last'.id}
                      /\ profiles'[last'.id].Name = last'.name
                      /\ profiles'[last'.id].IsActive = (DOMAIN profiles = {})
                      /\ (activeID' = last'.id) = (DOMAIN profiles = {})
                      /\ DOMAIN profiles # {} => activeID' = activeID
                      /\ \A id \in DOMAIN profiles : profiles'[id] = profiles[id] ]_vars

\* a CreateProfile on a store that held a profile has made an inactive one, and
\* one with a name in use has failed
CreateActivatesFirstWitness ==
    /\ last.kind = "CreateProfile"
    /\ last.err = ""
    /\ Cardinality(DOMAIN profiles) >= 2
    /\ ~profiles[last.id].IsActive
    /\ activeID \in DOMAIN profiles
    /\ activeID # last.id

-----------------------------------------------------------------------------
(* Claims about the hosts file manager, checked under SpecHosts *)

\* the line opens, or closes, a managed section
IsStart(line) == Contains(line, managedMark \o " START")
IsEnd(line) == ~IsStart(line) /\ Contains(line, managedMark \o " END")

\* the lines of the file outside the START and END markers: those that are no
\* marker and have no START marker before them without an END marker between
OutsideMarkers(data) ==
    LET lines == ReadHostsFile(data)
        open(i) == \E j \in 1..(i - 1) :
                      /\ IsStart(lines[j])
                      /\ \A k \in (j + 1)..(i - 1) : ~IsEnd(lines[k])
        tagged == [i \in 1..Len(lines) |-> <<i, lines[i]>>]
        outside(t) == ~IsStart(t[2]) /\ ~IsEnd(t[2]) /\ ~open(t[1])
        kept == SelectSeq(tagged, outside)
    IN  [i \in 1..Len(kept) |-> kept[i][2]]

\* the number of managed sections the file holds
ManagedSections(data) ==
    LET lines == ReadHostsFile(data)
    IN  Cardinality({i \in 1..Len(lines) : IsStart(lines[i])})

\* C32: ApplyProfile and UpdateManagedSection replace the managed section and
\* nothing else: the lines outside the START and END markers are after the call
\* what they were before it, the file holds at most one managed section, and
\* after a call with an empty profile or an empty entry list the file holds the
\* lines that were outside the markers and no managed section.
ManagedSectionOnly ==
    /\ [][ last'.kind \in {"ApplyProfile", "UpdateManagedSection"}
             => /\ OutsideMarkers(hostsFile') = OutsideMarkers(hostsFile)
                /\ (last'.err = "" /\ last'.empty)
                      => /\ ReadHostsFile(hostsFile') = OutsideMarkers(hostsFile)
                         /\ ManagedSections(hostsFile') = 0 ]_vars
    /\ [](ManagedSections(hostsFile) <= 1)

-----------------------------------------------------------------------------
(* Claims about the configuration watcher, checked under SpecWatcher and
   SpecWatcherLive *)

\* C33: WatchConfig on a manager that watches returns an error, starts no
\* goroutine and makes no channel; StopWatching on a manager that does not watch
\* changes nothing, and no StopWatching closes a closed channel; WatchConfig on
\* a manager that does not watch, one that was stopped included, succeeds and
\* starts one goroutine.
WatcherTwoStates ==
    [][ /\ (last'.kind = "WatchConfig" /\ watching)
             => /\ last'.err # ""
                /\ watching'
                /\ watchers' = watchers
                /\ stopChan' = stopChan
        /\ (last'.kind = "WatchConfig" /\ ~watching)
             => /\ last'.err = ""
                /\ watching'
                /\ Len(watchers') = Len(watchers) + 1
        /\ last'.kind = "StopWatching"
             => /\ ~last'.panic
                /\ ~watching'
                /\ ~watching => (closedChans' = closedChans /\ watchers' = watchers)
                /\ watching => closedChans' = closedChans \cup {stopChan} ]_vars

\* StopWatching was called on a stopped manager with a closed channel, and a
\* WatchConfig after a StopWatching has succeeded
WatcherTwoStatesWitness ==
    /\ last.kind = "StopWatching"
    /\ ~watching
    /\ stopChan \in closedChans
    /\ Len(watchers) = 2
    /\ 1 \in closedChans

\* goroutine g was started and StopWatching has returned since
WatcherStopped(g) == IF g \in DOMAIN watchers THEN watchers[g].stopped ELSE FALSE

\* goroutine g has returned
WatcherDone(g) == IF g \in DOMAIN watchers THEN watchers[g].pc = "done" ELSE FALSE

\* C39: once StopWatching has returned, every goroutine started by an earlier
\* WatchConfig terminates in the end and invokes the callback no more, whether
\* or not WatchConfig is called again; so at most one goroutine stays active.
WatcherGoroutineStops ==
    /\ \A g \in 1..MaxWatches :
          [](WatcherStopped(g) => <>WatcherDone(g))
    /\ [](\A g \in DOMAIN watchers : ~watchers[g].late)

-----------------------------------------------------------------------------
(* Claims about concurrent calls, checked under SpecThreads and SpecRestore *)

\* the instants of the limiter of client c that lie in the window that ends now
InWindow(c) ==
    IF c \in DOMAIN rateLimit
    THEN SelectSeq(rateLimit[c], LAMBDA reqTime : reqTime > now - Window)
    ELSE <<>>

\* C34: however the ValidateRequest calls of the threads interleave, the
\* limiter has admitted at most MaxRequestsPerMinute requests of a client at
\* instants of the window (now - Window, now], in every state and so for every
\* instant the window may end at; every admission is in the client's limiter
\* and every denial on the blacklist, none lost; and one thread at most is
\* between taking the mutex and giving it back.
ConcurrentAdmissions ==
    /\ \A c \in ClientIDs :
          /\ Len(admitted[c]) <= MaxRequestsPerMinute
          /\ InWindow(c) = admitted[c]
    /\ \A c \in DOMAIN denied :
          ~denied[c].cleared
            => /\ c \in DOMAIN blacklist
               /\ blacklist[c] = denied[c].until
    /\ \A t, u \in Threads :
          threads[t].pc = "held" /\ threads[u].pc = "held" => t = u
    /\ \A t \in Threads : threads[t].pc = "held" => mu = t

\* a thread waits for the mutex while the other holds it, both with a request
\* of the client whose window is full
ConcurrentAdmissionsWitness ==
    /\ threads["t1"].pc = "held"
    /\ threads["t2"].pc = "lock"
    /\ threads["t1"].req.client_id = "c2"
    /\ threads["t2"].req.client_id = "c2"
    /\ threads["t1"].stage = "limiter"
    /\ Len(admitted["c2"]) = MaxRequestsPerMinute

\* C35: whatever CreateBackup, DeleteBackup and CleanupOldBackups calls run
\* beside it, a RestoreBackup that returns nil has left at the target path
\* content with the checksum recorded in the BackupInfo it looked up, and one
\* that returns an error has left every file as it was.
RestoreVerifiedContent ==
    [][ last'.kind = "RestoreReturn"
          => IF last'.err = Nil
             THEN /\ last'.target \in DOMAIN files'
                  /\ md5Hex(files'[last'.target]) = last'.info.Checksum
             ELSE files' = files ]_vars

-----------------------------------------------------------------------------
(* A further claim about the validator, checked under SpecSecurity *)

\* the instants of the client's limiter that lay in the window when the last
\* call started
WindowBefore ==
    IF last.req.client_id \in DOMAIN last.pre.rateLimit
    THEN SelectSeq(last.pre.rateLimit[last.req.client_id],
                   LAMBDA reqTime : reqTime > last.pre.now - Window)
    ELSE <<>>

\* C36: a request the limiter admits and the operation check or the parameter
\* check then rejects has its instant in the client's window all the same; a
\* request rejected by the structural check or for the blacklist leaves the
\* limiters as they were; and a request that reaches the limiter when the window
\* holds MaxRequestsPerMinute instants, those of rejected requests included, is
\* rejected with RATE_LIMIT_EXCEEDED and the client is put on the blacklist.
RejectedRequestsCount ==
    Validated =>
        /\ (ReachedLimiter /\ Reached(4) /\ last.msg # "")
              => /\ last.req.client_id \in DOMAIN rateLimit
                 /\ rateLimit[last.req.client_id] = Append(WindowBefore, last.pre.now)
                 /\ last.code = "OPERATION_NOT_ALLOWED"
                      \/ HasPrefix(last.msg, "parameter validation failed")
        /\ (~Structural(last.req, last.pre.now) \/ Banned(last.pre, last.req.client_id))
              => rateLimit = last.pre.rateLimit
        /\ (ReachedLimiter /\ Len(WindowBefore) = MaxRequestsPerMinute)
              => /\ last.code = "RATE_LIMIT_EXCEEDED"
                 /\ last.req.client_id \in DOMAIN blacklist
                 /\ blacklist[last.req.client_id] = last.pre.now + BlacklistDuration

\* the limiter has turned a request away when every instant of the window was
\* that of a request rejected after the limiter
RejectedRequestsCountWitness ==
    /\ Validated
    /\ last.code = "RATE_LIMIT_EXCEEDED"
    /\ Len(spent[last.req.client_id]) = MaxRequestsPerMinute
    /\ spent[last.req.client_id] = admitted[last.req.client_id]
    /\ last.req.client_id \in DOMAIN blacklist

-----------------------------------------------------------------------------
(* A further claim about the dispatcher, checked under Spec *)

\* C37: every request handled by handleXPCRequest appends one record to the
\* audit trail and no more: a failed-operation record when validation rejects
\* it or its operation fails, a successful-operation record when its operation
\* succeeds.
OneAuditRecord ==
    Served =>
        /\ Len(last.audit) = 1
        /\ last.audit[1].type = IF last.resp.Success THEN "successful" ELSE "failed"

-----------------------------------------------------------------------------
(* A claim about the XPC server, checked under SpecServer *)

\* some messageLoop goroutine has not returned
LoopAlive == \E g \in DOMAIN loops : loops[g] = "running"

\* C38: whenever the server's running flag is set, and with it HostsHelper's,
\* a message loop is alive, after every sequence of Start and Stop calls; Start
\* on a running server returns an error and Stop on a stopped server returns
\* nil, and neither changes the running flag or the goroutines.
RunningMeansLoopAlive ==
    /\ [](xpcRunning => LoopAlive)
    /\ [][(last'.kind = "ServerStart" /\ xpcRunning)
             => (last'.err # "" /\ xpcRunning' /\ loops' = loops)]_vars
    /\ [][(last'.kind = "ServerStop" /\ ~xpcRunning)
             => (last'.err = "" /\ ~xpcRunning' /\ loops' = loops)]_vars
    /\ [][(last'.kind = "HelperStart" /\ helperRunning)
             => (last'.err # "" /\ helperRunning' /\ loops' = loops)]_vars
    /\ [][(last'.kind = "HelperStop" /\ ~helperRunning)
             => (~helperRunning' /\ xpcRunning' = xpcRunning)]_vars

====
